---- MODULE Spec2Model ----
(***************************************************************************)
(* Lab_backend: the chat request Serializer (requestQueue / isProcessing / *)
(* processQueue), the direct chat handler of server.js, and the OTP        *)
(* verification flow of the auth router.                                   *)
(*                                                                         *)
(* Node.js runs one callback at a time: every action below is one          *)
(* synchronous run of a handler or continuation, from the event that       *)
(* starts it up to its next await on I/O (store access, generation call,   *)
(* mail) or its return.                                                    *)
(***************************************************************************)
EXTENDS Integers, Sequences, FiniteSets, TLC

(***************************************************************************)
(* Bounds of the model.  One tick of the auth router's clock (TickSec)     *)
(* takes a stored code past its time-to-live.                              *)
(***************************************************************************)
MaxReq == 3
TickMs == 1000
MaxNow == 5000
MaxProcs == 2
MaxOps == 5
MaxCode == 2
TickSec == 61
MaxClock == 61
TickNum == 300
MaxNumClock == 900
MaxOpsPair == 2
MaxOpsSession == 3
MaxOpsNumFair == 3
MaxOpsLogin == 4
TickToken == 43200
MaxTokenClock == 90000

(***************************************************************************)
(* Program constants                                                       *)
(***************************************************************************)
RATE_LIMIT_DELAY == 2000
OTP_TTL == 60
CODE_TTL == 600

VARIABLES
    requestQueue,   \* const requestQueue = []: sequence of queued items
    isProcessing,   \* let isProcessing = false
    inflight,       \* items whose generateContent() promise is pending
    timers,         \* pending setTimeout(() => processQueue(), ...) callbacks
    now,            \* wall clock of the chat server, in ms
    arrived,        \* number of chat requests received so far
    respLog,        \* HTTP responses sent on the chat endpoints, in order
    enqLog,         \* history: request ids in the order they were pushed
    startLog,       \* history: generation calls in the order they started
    lastDone,       \* history: time the latest generation call settled, -1 if none
    users,          \* User collection, by (unique) email
    otps,           \* OTP collection, in natural (insertion) order
    clock,          \* wall clock of the auth router, in seconds
    procs,          \* auth handler invocations: position and local variables
    opsStarted,     \* number of auth requests received so far
    hist,           \* history: per email, the codes of the last two send/resend
    lastResp,       \* the HTTP response the auth router sent in the latest step, if any
    verificationCodes,  \* const verificationCodes = new Map(): by email
    codeTimers,     \* pending setTimeout(() => verificationCodes.delete(email), ...)
    jwtSecret,      \* process.env.JWT_SECRET, "" when it is not set
    sessionLog,     \* history: per token, the first answer of /verify to it
    urlDatabase,    \* let urlDatabase = []: the URLs loaded from file_urls.txt
    lastQuery,      \* the query of the latest getRelevantUrls call, "" if none
    relevantUrls,   \* what the latest getRelevantUrls call returned
    userDocs,       \* User collection of auth-routes.js, in insertion order
    regs,           \* /register invocations of auth-routes.js: position, locals, answer
    issued          \* history: the session tokens the handlers have answered with

chatVars == <<requestQueue, isProcessing, inflight, timers, now, arrived,
              respLog, enqLog, startLog, lastDone>>

otpVars == <<users, otps, clock, procs, opsStarted, hist, lastResp>>

numVars == <<verificationCodes, codeTimers>>

envVars == <<jwtSecret, sessionLog>>

scoreVars == <<urlDatabase, lastQuery, relevantUrls>>

authVars == <<userDocs, regs>>

vars == <<chatVars, otpVars, numVars, envVars, scoreVars, authVars, issued>>

Prompts == {"", "q"}

(***************************************************************************)
(* Responses of the chat path                                              *)
(***************************************************************************)
EmptyPromptResponse == [status |-> 400, message |-> "Please enter a message"]

SuccessResponse == [status |-> 200, message |-> "transformedText"]

TransientError_Status200 == [status |-> 200, message |-> "Please wait a moment and try again."]

TransientError == [status |-> 500, message |-> "Please wait a moment and try again."]

ServerError == [status |-> 500, message |-> "Server error occurred"]

(***************************************************************************)
(* requestQueue.shift(): the item taken and the queue left                 *)
(***************************************************************************)
Shift_Pop(q) == [item |-> q[Len(q)], rest |-> SubSeq(q, 1, Len(q) - 1)]

Shift_KeepsHead(q) == [item |-> Head(q), rest |-> q]

Shift(q) == [item |-> Head(q), rest |-> Tail(q)]

(***************************************************************************)
(* processQueue(), first line: the guard that lets a drain start           *)
(***************************************************************************)
CanDrain_NoBusyCheck(busy, q) == Len(q) > 0

CanDrain(busy, q) == ~busy /\ Len(q) > 0

(***************************************************************************)
(* processQueue() from its entry to `await model.generateContent(prompt)`, *)
(* run on queue q; busy is isProcessing at entry.                          *)
(***************************************************************************)
ProcessQueueStart(busy, q) ==
    IF CanDrain(busy, q)
    THEN /\ isProcessing' = TRUE
         /\ requestQueue' = Shift(q).rest
         /\ inflight' = inflight \cup {Shift(q).item}
         /\ startLog' = Append(startLog,
                [req |-> Shift(q).item.req, at |-> now, prevDone |-> lastDone])
    ELSE /\ isProcessing' = busy
         /\ requestQueue' = q
         /\ UNCHANGED <<inflight, startLog>>

(***************************************************************************)
(* app.post('/api/auth/chat') and app.post('/api/chat'): same body         *)
(***************************************************************************)
ChatHandler_PushOnly(ep, prompt) ==
    /\ arrived < MaxReq
    /\ arrived' = arrived + 1
    /\ IF prompt = ""
       THEN /\ respLog' = Append(respLog,
                   [req |-> arrived + 1, gen |-> "none", resp |-> EmptyPromptResponse])
            /\ UNCHANGED <<requestQueue, enqLog>>
       ELSE /\ enqLog' = Append(enqLog, arrived + 1)
            /\ requestQueue' = Append(requestQueue,
                                [req |-> arrived + 1, prompt |-> prompt])
            /\ UNCHANGED respLog
    /\ UNCHANGED <<isProcessing, inflight, startLog>>
    /\ UNCHANGED <<timers, now, lastDone>>
    /\ UNCHANGED <<otpVars, numVars, envVars, scoreVars, authVars, issued>>

ChatHandler_NoPromptCheck(ep, prompt) ==
    /\ arrived < MaxReq
    /\ arrived' = arrived + 1
    /\ enqLog' = Append(enqLog, arrived + 1)
    /\ LET pushed == Append(requestQueue,
                        [req |-> arrived + 1, prompt |-> prompt])
       IN IF ~isProcessing
          THEN ProcessQueueStart(isProcessing, pushed)
          ELSE /\ requestQueue' = pushed
               /\ UNCHANGED <<isProcessing, inflight, startLog>>
    /\ UNCHANGED respLog
    /\ UNCHANGED <<timers, now, lastDone>>
    /\ UNCHANGED <<otpVars, numVars, envVars, scoreVars, authVars, issued>>

ChatHandler(ep, prompt) ==
    /\ arrived < MaxReq
    /\ arrived' = arrived + 1
    /\ IF prompt = ""
       THEN /\ respLog' = Append(respLog,
                   [req |-> arrived + 1, gen |-> "none", resp |-> EmptyPromptResponse])
            /\ UNCHANGED <<requestQueue, isProcessing, inflight, enqLog, startLog>>
       ELSE /\ enqLog' = Append(enqLog, arrived + 1)
            /\ LET pushed == Append(requestQueue,
                                [req |-> arrived + 1, prompt |-> prompt])
               IN IF ~isProcessing
                  THEN ProcessQueueStart(isProcessing, pushed)
                  ELSE /\ requestQueue' = pushed
                       /\ UNCHANGED <<isProcessing, inflight, startLog>>
            /\ UNCHANGED respLog
    /\ UNCHANGED <<timers, now, lastDone>>
    /\ UNCHANGED <<otpVars, numVars, envVars, scoreVars, authVars, issued>>

AuthChat(prompt) == ChatHandler("/api/auth/chat", prompt)

Chat(prompt) == ChatHandler("/api/chat", prompt)

(***************************************************************************)
(* processQueue() resumed when generateContent() settles: the try body     *)
(* after the await, or the catch block, then the finally block.            *)
(***************************************************************************)
CallSettles_NoTimer(item, ok) ==
    /\ item \in inflight
    /\ inflight' = inflight \ {item}
    /\ respLog' = Append(respLog,
            [req |-> item.req,
             gen |-> IF ok THEN "fulfilled" ELSE "rejected",
             resp |-> IF ok THEN SuccessResponse ELSE TransientError])
    /\ isProcessing' = FALSE
    /\ lastDone' = now
    /\ UNCHANGED <<requestQueue, now, arrived, enqLog, startLog, timers>>
    /\ UNCHANGED <<otpVars, numVars, envVars, scoreVars, authVars, issued>>

CallSettles_FlagKeptOnError(item, ok) ==
    /\ item \in inflight
    /\ inflight' = inflight \ {item}
    /\ respLog' = Append(respLog,
            [req |-> item.req,
             gen |-> IF ok THEN "fulfilled" ELSE "rejected",
             resp |-> IF ok THEN SuccessResponse ELSE TransientError])
    /\ isProcessing' = ~ok
    /\ timers' = timers \cup {[by |-> item.req, due |-> now + RATE_LIMIT_DELAY]}
    /\ lastDone' = now
    /\ UNCHANGED <<requestQueue, now, arrived, enqLog, startLog>>
    /\ UNCHANGED <<otpVars, numVars, envVars, scoreVars, authVars, issued>>

CallSettles(item, ok) ==
    /\ item \in inflight
    /\ inflight' = inflight \ {item}
    /\ respLog' = Append(respLog,
            [req |-> item.req,
             gen |-> IF ok THEN "fulfilled" ELSE "rejected",
             resp |-> IF ok THEN SuccessResponse ELSE TransientError])
    /\ isProcessing' = FALSE
    /\ timers' = timers \cup {[by |-> item.req, due |-> now + RATE_LIMIT_DELAY]}
    /\ lastDone' = now
    /\ UNCHANGED <<requestQueue, now, arrived, enqLog, startLog>>
    /\ UNCHANGED <<otpVars, numVars, envVars, scoreVars, authVars, issued>>

CallSucceeds == \E item \in inflight : CallSettles(item, TRUE)

CallFails == \E item \in inflight : CallSettles(item, FALSE)

(***************************************************************************)
(* A cooldown timer fires: () => processQueue()                            *)
(***************************************************************************)
TimerFires ==
    \E t \in timers :
        /\ now >= t.due
        /\ timers' = timers \ {t}
        /\ ProcessQueueStart(isProcessing, requestQueue)
        /\ UNCHANGED <<now, arrived, respLog, enqLog, lastDone>>
        /\ UNCHANGED <<otpVars, numVars, envVars, scoreVars, authVars, issued>>

Tick ==
    /\ now + TickMs <= MaxNow
    /\ now' = now + TickMs
    /\ UNCHANGED <<requestQueue, isProcessing, inflight, timers, arrived,
                   respLog, enqLog, startLog, lastDone>>
    /\ UNCHANGED <<otpVars, numVars, envVars, scoreVars, authVars, issued>>

(***************************************************************************)
(* Auth router, OTP variant (send-otp / verify-otp / resend-otp /          *)
(* register).  Every await on the store or on the mailer ends a step.      *)
(***************************************************************************)
EmailInputs == {"", "A@x.com"}
Names == {"", "A", "Al"}
Passwords == {"abc", "secret1"}
Codes == 1..MaxCode
\* the otp field of a request body: a code, or 0 when the field is missing
CodeInputs == {0} \cup Codes

\* password.length
PasswordLength(w) ==
    IF w \in {"secret1", "secret2"} THEN 7 ELSE IF w = "abc" THEN 3 ELSE 0

\* name.length
NameLength(n) == IF n = "Al" THEN 2 ELSE IF n = "A" THEN 1 ELSE 0

\* req.body of /register: the well-formed bodies and those with one bad field
RegisterBodies ==
    {b \in [name : Names, email : EmailInputs, password : Passwords, otp : CodeInputs] :
        Cardinality({f \in {"name", "email", "password", "otp"} :
            \/ f = "name" /\ NameLength(b.name) < 2
            \/ f = "email" /\ b.email = ""
            \/ f = "password" /\ PasswordLength(b.password) < 6
            \/ f = "otp" /\ b.otp = 0}) <= 1}
Procs == 1..MaxProcs

\* the same with the address of a second account
EmailInputsPair == EmailInputs \cup {"b@x.com"}

\* String.prototype.toLowerCase() on the e-mail addresses of the model
ToLower(e) == IF e = "A@x.com" THEN "a@x.com" ELSE e

Keys == {ToLower(e) : e \in EmailInputsPair \ {""}}

\* bcrypt.hash(value, 10) and bcrypt.compare(value, hash)
Hash_Plaintext(v) == <<"plain", v>>

Hash(v) == <<"bcrypt", v>>

Compare_AlwaysTrue(v, h) == TRUE

Compare(v, h) == h = Hash(v)

NoRec == [email |-> "", otp |-> <<>>, createdAt |-> -1]

NoUser == [exists |-> FALSE, name |-> "", password |-> <<>>,
           role |-> "", isVerified |-> FALSE]

\* OTP.findOne({ email }): position of the first matching document in natural
\* (insertion) order, 0 if none
FindOne_AnyEmail(store, e) == IF Len(store) > 0 THEN 1 ELSE 0

FindOne(store, e) ==
    IF \E i \in 1..Len(store) : store[i].email = e
    THEN CHOOSE i \in 1..Len(store) :
            /\ store[i].email = e
            /\ \A j \in 1..(i - 1) : store[j].email # e
    ELSE 0

FindOneRec(store, e) == IF FindOne(store, e) = 0 THEN NoRec ELSE store[FindOne(store, e)]

RemoveAt(store, i) == SubSeq(store, 1, i - 1) \o SubSeq(store, i + 1, Len(store))

\* OTP.findOneAndDelete({ email }): removes the first matching document
FindOneAndDelete(store, e) ==
    IF FindOne(store, e) = 0 THEN store ELSE RemoveAt(store, FindOne(store, e))

IdleProc == [op |-> "", pc |-> "idle", email |-> "", code |-> 0, name |-> "",
             password |-> "", rec |-> NoRec, usr |-> NoUser, checkedAt |-> -1,
             clean |-> FALSE, stale |-> FALSE, afterVerify |-> FALSE,
             consumed |-> FALSE]

(***************************************************************************)
(* Session tokens: jwt.sign(payload, secret, { expiresIn: '24h' }) and     *)
(* jwt.verify(token, secret).  The key field stands for the signature: it  *)
(* names the secret the token was signed with.                             *)
(***************************************************************************)
TOKEN_LIFETIME == 86400

DefaultSecret == "your-secret-key"

JwtSecrets == {"", "s3cret"}

NoClaims == [id |-> 0, email |-> "", role |-> ""]

NoToken == [form |-> "missing", payload |-> NoClaims, iat |-> -1, exp |-> -1, key |-> ""]

MalformedToken == [NoToken EXCEPT !.form = "malformed"]

\* user._id: the store gives every document its own id
UserId(e) == IF e = "a@x.com" THEN 1 ELSE IF e = "b@x.com" THEN 2 ELSE 0

\* jwt.sign throws when the secret is missing
SignThrows_Never(secret) == FALSE

SignThrows(secret) == secret = ""

Sign(claims, secret, t) ==
    [form |-> "jwt", payload |-> claims, iat |-> t, exp |-> t + TOKEN_LIFETIME,
     key |-> secret]

\* process.env.JWT_SECRET || 'your-secret-key'
EffectiveSecret(env) == IF env = "" THEN DefaultSecret ELSE env

\* jwt.verify(token, secret) returns the payload: the token is well-formed,
\* its signature was made with secret, and the clock has not reached exp
JwtVerify_NoSignatureCheck(tok, secret, t) == tok.form = "jwt" /\ t < tok.exp

JwtVerify_HalfLifetime(tok, secret, t) ==
    tok.form = "jwt" /\ tok.key = secret /\ 2 * (t - tok.iat) < tok.exp - tok.iat

JwtVerify(tok, secret, t) ==
    tok.form = "jwt" /\ tok.key = secret /\ t < tok.exp

NoResp == [op |-> "", email |-> "", code |-> 0, status |-> 0, error |-> "",
           token |-> NoToken, user |-> NoClaims, bearer |-> NoToken,
           needsVerification |-> FALSE]

NoHist == [prev |-> 0, last |-> 0]

Active(p) == procs[p].pc # "idle"

Key(p) == ToLower(procs[p].email)

\* a new request is served by the lowest-numbered free handler slot
CanStart(p) ==
    /\ opsStarted < MaxOps
    /\ ~Active(p)
    /\ \A q \in Procs : q < p => Active(q)

\* res.status(st).json(...): the handler of req returns and its slot is free
Finish(p, req, st, err) ==
    /\ procs' = [procs EXCEPT ![p] = IdleProc]
    /\ lastResp' = [NoResp EXCEPT !.op = req.op, !.email = req.email,
                                  !.code = req.code, !.status = st, !.error = err]

\* res.status(st).json({ message, token, user }): the same, with a token
FinishToken(p, req, st, tok) ==
    /\ procs' = [procs EXCEPT ![p] = IdleProc]
    /\ lastResp' = [NoResp EXCEPT !.op = req.op, !.email = req.email,
                                  !.code = req.code, !.status = st, !.token = tok]
    /\ issued' = issued \cup {tok}

\* the handler of slot p goes on to its next await with locals new
Await(p, new) ==
    /\ procs' = [procs EXCEPT ![p] = new]
    /\ lastResp' = NoResp

RequestingCode(q) == Active(q) /\ procs[q].op \in {"send-otp", "resend-otp"}

\* history: hist[e].prev and hist[e].last are the codes of the last two
\* send/resend requests completed for e, 0 for a request that failed or that
\* ran while another send/resend for e was in progress.  The code c is
\* superseded when it was issued by the earlier of the two, the later one
\* issued a different code, and no send/resend for e is in progress
Superseded(e, c) ==
    /\ e \in Keys
    /\ c # 0
    /\ hist[e].prev = c
    /\ hist[e].last # 0
    /\ hist[e].last # c
    /\ \A q \in Procs : ~(RequestingCode(q) /\ Key(q) = e)

(***************************************************************************)
(* router.post('/send-otp') and router.post('/resend-otp')                 *)
(***************************************************************************)
\* generateOTP() and bcrypt.hash: the handler goes on to the store with a
\* fresh code; history: it overlaps every handler that is at work on e
BeginRequestCode(p, req) ==
    \E c \in Codes :
        /\ procs' = [q \in Procs |->
              IF q = p
              THEN [req EXCEPT !.pc = "deleteOtp", !.code = c,
                      !.clean = \A r \in Procs :
                         ~(RequestingCode(r) /\ Key(r) = ToLower(req.email))]
              ELSE IF Active(q) /\ Key(q) = ToLower(req.email)
                   THEN [procs[q] EXCEPT !.clean = FALSE, !.stale = FALSE]
                   ELSE procs[q]]
        /\ lastResp' = NoResp

SendOtp_NoUserCheck(p, email) ==
    /\ CanStart(p)
    /\ opsStarted' = opsStarted + 1
    /\ LET req == [IdleProc EXCEPT !.op = "send-otp", !.email = email]
       IN IF email = ""
          THEN Finish(p, req, 400, "Email is required")
          ELSE BeginRequestCode(p, req)
    /\ UNCHANGED <<users, otps, clock, hist>>
    /\ UNCHANGED <<chatVars, numVars, envVars, scoreVars, authVars, issued>>

SendOtp(p, email) ==
    /\ CanStart(p)
    /\ opsStarted' = opsStarted + 1
    /\ LET req == [IdleProc EXCEPT !.op = "send-otp", !.email = email]
       IN IF email = ""
          THEN Finish(p, req, 400, "Email is required")
          ELSE IF ~users[ToLower(email)].exists
          THEN Finish(p, req, 400, "Email not registered")
          ELSE BeginRequestCode(p, req)
    /\ UNCHANGED <<users, otps, clock, hist>>
    /\ UNCHANGED <<chatVars, numVars, envVars, scoreVars, authVars, issued>>

ResendOtp(p, email) ==
    /\ CanStart(p)
    /\ opsStarted' = opsStarted + 1
    /\ LET req == [IdleProc EXCEPT !.op = "resend-otp", !.email = email]
       IN IF email = ""
          THEN Finish(p, req, 400, "Email is required")
          ELSE BeginRequestCode(p, req)
    /\ UNCHANGED <<users, otps, clock, hist>>
    /\ UNCHANGED <<chatVars, numVars, envVars, scoreVars, authVars, issued>>

\* await OTP.findOneAndDelete({ email: email.toLowerCase() })
OtpDeletePrior(p) ==
    /\ RequestingCode(p)
    /\ procs[p].pc = "deleteOtp"
    /\ otps' = FindOneAndDelete(otps, Key(p))
    /\ Await(p, [procs[p] EXCEPT !.pc = "createOtp"])
    /\ UNCHANGED <<users, clock, opsStarted, hist>>
    /\ UNCHANGED <<chatVars, numVars, envVars, scoreVars, authVars, issued>>

\* await OTP.create({ email: email.toLowerCase(), otp: hashedOTP })
OtpCreate(p) ==
    /\ RequestingCode(p)
    /\ procs[p].pc = "createOtp"
    /\ otps' = Append(otps, [email |-> Key(p), otp |-> Hash(procs[p].code),
                             createdAt |-> clock])
    /\ Await(p, [procs[p] EXCEPT !.pc = "sendMail"])
    /\ UNCHANGED <<users, clock, opsStarted, hist>>
    /\ UNCHANGED <<chatVars, numVars, envVars, scoreVars, authVars, issued>>

\* await sendOTPEmail(email, otp) resolves: 200
OtpMailSent(p) ==
    /\ RequestingCode(p)
    /\ procs[p].pc = "sendMail"
    /\ Finish(p, procs[p], 200, "")
    /\ hist' = [hist EXCEPT ![Key(p)] =
                  [prev |-> hist[Key(p)].last,
                   last |-> IF procs[p].clean THEN procs[p].code ELSE 0]]
    /\ UNCHANGED <<users, otps, clock, opsStarted>>
    /\ UNCHANGED <<chatVars, numVars, envVars, scoreVars, authVars, issued>>

\* await sendOTPEmail(email, otp) rejects: catch, 500
OtpMailFails(p) ==
    /\ RequestingCode(p)
    /\ procs[p].pc = "sendMail"
    /\ Finish(p, procs[p], 500,
              IF procs[p].op = "send-otp"
              THEN "Failed to send verification code"
              ELSE "Failed to resend verification code")
    /\ hist' = [hist EXCEPT ![Key(p)] = [prev |-> hist[Key(p)].last, last |-> 0]]
    /\ UNCHANGED <<users, otps, clock, opsStarted>>
    /\ UNCHANGED <<chatVars, numVars, envVars, scoreVars, authVars, issued>>

(***************************************************************************)
(* router.post('/verify-otp')                                              *)
(***************************************************************************)
\* const otpRecord = await OTP.findOne(...) and the bcrypt.compare after it;
\* a handler that passes both goes on at nextPc
CheckOtp_SkipsCompare(p, req, nextPc) ==
    LET rec == FindOneRec(otps, ToLower(req.email))
    IN IF rec = NoRec
       THEN Finish(p, req, 400, "Verification code expired or invalid")
       ELSE Await(p, [req EXCEPT !.rec = rec, !.checkedAt = clock, !.pc = nextPc])

CheckOtp(p, req, nextPc) ==
    LET rec == FindOneRec(otps, ToLower(req.email))
    IN IF rec = NoRec
       THEN Finish(p, req, 400, "Verification code expired or invalid")
       ELSE IF ~Compare(req.code, rec.otp)
       THEN Finish(p, req, 400, "Invalid verification code")
       ELSE Await(p, [req EXCEPT !.rec = rec, !.checkedAt = clock, !.pc = nextPc])

VerifyOtp(p, email, otp) ==
    /\ CanStart(p)
    /\ opsStarted' = opsStarted + 1
    /\ LET req == [IdleProc EXCEPT !.op = "verify-otp", !.email = email,
                                   !.code = otp,
                                   !.stale = Superseded(ToLower(email), otp)]
       IN IF email = "" \/ otp = 0
          THEN Finish(p, req, 400, "Email and verification code are required")
          ELSE CheckOtp(p, req, "findUser")
    /\ UNCHANGED <<users, otps, clock, hist>>
    /\ UNCHANGED <<chatVars, numVars, envVars, scoreVars, authVars, issued>>

\* const user = await User.findOne({ email: email.toLowerCase() })
VerifyFindUser(p) ==
    /\ procs[p].op = "verify-otp"
    /\ procs[p].pc = "findUser"
    /\ Await(p, [procs[p] EXCEPT !.usr = users[Key(p)],
                                 !.pc = IF users[Key(p)].exists
                                        THEN "saveUser" ELSE "deleteOtp"])
    /\ UNCHANGED <<users, otps, clock, opsStarted, hist>>
    /\ UNCHANGED <<chatVars, numVars, envVars, scoreVars, authVars, issued>>

\* user.isVerified = true; await user.save()
VerifySaveUser(p) ==
    /\ procs[p].op = "verify-otp"
    /\ procs[p].pc = "saveUser"
    /\ users' = [users EXCEPT ![Key(p)].isVerified = TRUE]
    /\ Await(p, [procs[p] EXCEPT !.pc = "deleteOtp"])
    /\ UNCHANGED <<otps, clock, opsStarted, hist>>
    /\ UNCHANGED <<chatVars, numVars, envVars, scoreVars, authVars, issued>>

\* await OTP.findOneAndDelete({ email: email.toLowerCase() }); 200
VerifyDeleteOtp(p) ==
    /\ procs[p].op = "verify-otp"
    /\ procs[p].pc = "deleteOtp"
    /\ otps' = FindOneAndDelete(otps, Key(p))
    /\ Finish(p, procs[p], 200, "")
    /\ UNCHANGED <<users, clock, opsStarted, hist>>
    /\ UNCHANGED <<chatVars, numVars, envVars, scoreVars, authVars, issued>>

(***************************************************************************)
(* router.post('/register')                                                *)
(***************************************************************************)
\* if (existingUser && existingUser.isVerified)
AlreadyRegistered_UnverifiedOnly(u) == u.exists /\ ~u.isVerified

AlreadyRegistered(u) == u.exists /\ u.isVerified

\* history: afterVerify marks a register for an email without user record
\* that is received right after the 200 of a verify-otp for the same email
\* and code, while no other handler is at work
Register(p, name, email, password, otp) ==
    /\ CanStart(p)
    /\ opsStarted' = opsStarted + 1
    /\ LET req == [IdleProc EXCEPT !.op = "register", !.email = email,
                                   !.code = otp, !.name = name,
                                   !.password = password,
                                   !.stale = Superseded(ToLower(email), otp),
                                   !.afterVerify =
                                       /\ lastResp.op = "verify-otp"
                                       /\ lastResp.status = 200
                                       /\ lastResp.email = email
                                       /\ lastResp.code = otp
                                       /\ ~users[ToLower(email)].exists
                                       /\ \A q \in Procs : ~Active(q)]
       IN IF name = "" \/ email = "" \/ password = "" \/ otp = 0
          THEN Finish(p, req, 400, "All fields are required")
          ELSE IF PasswordLength(password) < 6
          THEN Finish(p, req, 400, "Password must be at least 6 characters long")
          ELSE IF AlreadyRegistered(users[ToLower(email)])
          THEN Finish(p, req, 400, "Email already registered")
          ELSE Await(p, [req EXCEPT !.pc = "findOtp", !.usr = users[ToLower(email)]])
    /\ UNCHANGED <<users, otps, clock, hist>>
    /\ UNCHANGED <<chatVars, numVars, envVars, scoreVars, authVars, issued>>

\* const otpRecord = await OTP.findOne(...); bcrypt.compare
RegisterFindOtp(p) ==
    /\ procs[p].op = "register"
    /\ procs[p].pc = "findOtp"
    /\ CheckOtp(p, procs[p], "deleteOtp")
    /\ UNCHANGED <<users, otps, clock, opsStarted, hist>>
    /\ UNCHANGED <<chatVars, numVars, envVars, scoreVars, authVars, issued>>

\* await OTP.findOneAndDelete({ email: email.toLowerCase() }); history:
\* consumed marks a handler whose delete removed a record
RegisterDeleteOtp(p) ==
    /\ procs[p].op = "register"
    /\ procs[p].pc = "deleteOtp"
    /\ otps' = FindOneAndDelete(otps, Key(p))
    /\ Await(p, [procs[p] EXCEPT !.pc = "saveUser",
                                 !.consumed = FindOne(otps, Key(p)) # 0])
    /\ UNCHANGED <<users, clock, opsStarted, hist>>
    /\ UNCHANGED <<chatVars, numVars, envVars, scoreVars, authVars, issued>>

\* existingUser.save() or new User({...}).save(), jwt.sign and the 201
\* response.  save() validates the document first (name: minlength 2), and
\* the catch block answers a ValidationError with 400; an insert for an
\* e-mail that is already stored is rejected by the unique index and a
\* jwt.sign that throws comes after the save: both end in the catch block (500)
RegisterSaveUser(p) ==
    /\ procs[p].op = "register"
    /\ procs[p].pc = "saveUser"
    /\ LET doc == [exists |-> TRUE, name |-> procs[p].name,
                   password |-> Hash(procs[p].password),
                   role |-> IF procs[p].usr.exists THEN users[Key(p)].role ELSE "user",
                   isVerified |-> TRUE]
           claims == [id |-> UserId(Key(p)), email |-> Key(p), role |-> doc.role]
       IN IF NameLength(procs[p].name) < 2
          THEN /\ Finish(p, procs[p], 400, "Name must be at least 2 characters long")
               /\ UNCHANGED <<users, issued>>
          ELSE IF ~procs[p].usr.exists /\ users[Key(p)].exists
          THEN /\ Finish(p, procs[p], 500, "Failed to register user")
               /\ UNCHANGED <<users, issued>>
          ELSE /\ users' = [users EXCEPT ![Key(p)] = doc]
               /\ IF SignThrows(jwtSecret)
                  THEN /\ Finish(p, procs[p], 500, "Failed to register user")
                       /\ UNCHANGED issued
                  ELSE FinishToken(p, procs[p], 201, Sign(claims, jwtSecret, clock))
    /\ UNCHANGED <<otps, clock, opsStarted, hist>>
    /\ UNCHANGED <<chatVars, numVars, envVars, scoreVars, authVars>>

(***************************************************************************)
(* otpSchema createdAt { expires: 60 }: the store's TTL monitor removes a  *)
(* document some time after it has expired                                 *)
(***************************************************************************)
TtlPurge ==
    \E i \in 1..Len(otps) :
        /\ clock - otps[i].createdAt >= OTP_TTL
        /\ otps' = RemoveAt(otps, i)
        /\ lastResp' = NoResp
        /\ UNCHANGED <<users, clock, procs, opsStarted, hist>>
        /\ UNCHANGED <<chatVars, numVars, envVars, scoreVars, authVars, issued>>

ClockTick ==
    /\ clock + TickSec <= MaxClock
    /\ clock' = clock + TickSec
    /\ lastResp' = NoResp
    /\ UNCHANGED <<users, otps, procs, opsStarted, hist>>
    /\ UNCHANGED <<chatVars, numVars, envVars, scoreVars, authVars, issued>>

(***************************************************************************)
(* router.post('/login') and router.get('/verify', verifyToken, ...) of    *)
(* the OTP variant                                                         *)
(***************************************************************************)
LoginPasswords == {"", "abc", "secret1"}

\* the Authorization header of a request, 'Bearer ' removed: no token, a
\* string that is no JWT, or a JWT with some claims signed with some key
ClaimsInputs == {[id |-> 1, email |-> "a@x.com", role |-> "user"],
                 [id |-> 2, email |-> "b@x.com", role |-> "admin"]}

TokenInputs ==
    {NoToken, MalformedToken} \cup
    {Sign(c, k, 0) : c \in ClaimsInputs, k \in {DefaultSecret} \cup (JwtSecrets \ {""})}

NoSession == [status |-> 0, user |-> NoClaims, at |-> -1]

\* if (!user.isVerified)
NotVerified_Never(user) == FALSE

NotVerified(user) == ~user.isVerified

\* router.post('/login') up to await bcrypt.compare
Login(p, email, password) ==
    /\ CanStart(p)
    /\ opsStarted' = opsStarted + 1
    /\ LET req == [IdleProc EXCEPT !.op = "login", !.email = email,
                                   !.password = password]
           user == users[ToLower(email)]
       IN IF email = "" \/ password = ""
          THEN Finish(p, req, 400, "Email and password are required")
          ELSE IF ~user.exists
          THEN Finish(p, req, 400, "Invalid email or password")
          ELSE IF NotVerified(user)
          THEN /\ procs' = [procs EXCEPT ![p] = IdleProc]
               /\ lastResp' = [NoResp EXCEPT !.op = "login", !.email = email,
                                  !.status = 401, !.error = "Email not verified",
                                  !.needsVerification = TRUE]
          ELSE Await(p, [req EXCEPT !.pc = "compare", !.usr = user])
    /\ UNCHANGED <<users, otps, clock, hist>>
    /\ UNCHANGED <<chatVars, numVars, envVars, scoreVars, authVars, issued>>

\* bcrypt.compare(password, user.password), jwt.sign and the response
LoginCompare(p) ==
    /\ procs[p].op = "login"
    /\ procs[p].pc = "compare"
    /\ LET claims == [id |-> UserId(Key(p)), email |-> Key(p),
                      role |-> procs[p].usr.role]
       IN IF ~Compare(procs[p].password, procs[p].usr.password)
          THEN /\ Finish(p, procs[p], 400, "Invalid email or password")
               /\ UNCHANGED issued
          ELSE FinishToken(p, procs[p], 200,
                           Sign(claims, EffectiveSecret(jwtSecret), clock))
    /\ UNCHANGED <<users, otps, clock, opsStarted, hist>>
    /\ UNCHANGED <<chatVars, numVars, envVars, scoreVars, authVars>>

\* res.json({ valid: true, user: { id, email, role } }) from req.user
ResponseUser(verified) ==
    [id |-> verified.id, email |-> verified.email, role |-> verified.role]

\* verifyToken and the /verify handler: one synchronous run.  history:
\* sessionLog keeps the first answer given to a token that had not expired
VerifySession(p, tok) ==
    /\ CanStart(p)
    /\ opsStarted' = opsStarted + 1
    /\ procs' = procs
    /\ lastResp' =
          IF tok.form = "missing"
          THEN [NoResp EXCEPT !.op = "verify", !.bearer = tok, !.status = 401,
                              !.error = "Access denied. No token provided."]
          ELSE IF ~JwtVerify(tok, EffectiveSecret(jwtSecret), clock)
          THEN [NoResp EXCEPT !.op = "verify", !.bearer = tok, !.status = 401,
                              !.error = "Invalid token"]
          ELSE [NoResp EXCEPT !.op = "verify", !.bearer = tok, !.status = 200,
                              !.user = ResponseUser(tok.payload)]
    /\ sessionLog' =
          IF sessionLog[tok] = NoSession /\ (tok.form = "jwt" => clock < tok.exp)
          THEN [sessionLog EXCEPT ![tok] = [status |-> lastResp'.status,
                                           user |-> lastResp'.user, at |-> clock]]
          ELSE sessionLog
    /\ UNCHANGED <<users, otps, clock, hist, jwtSecret>>
    /\ UNCHANGED <<chatVars, numVars, scoreVars, authVars, issued>>

SessionTick ==
    /\ clock + TickToken <= MaxTokenClock
    /\ clock' = clock + TickToken
    /\ lastResp' = NoResp
    /\ UNCHANGED <<users, otps, procs, opsStarted, hist>>
    /\ UNCHANGED <<chatVars, numVars, envVars, scoreVars, authVars, issued>>

(***************************************************************************)
(* Auth router, numeric-code variant (request-verification / verify-email  *)
(* / resend-code): the codes are kept in the verificationCodes Map and     *)
(* every request-verification and resend-code that has sent its mail arms  *)
(* a timer that deletes the entry of its email.  Times are in seconds.     *)
(***************************************************************************)
NumEmails == {"a@x.com"}

NumNames == {"Al"}

NoVerification == [code |-> 0,
                   userData |-> [name |-> "", email |-> "", password |-> ""],
                   timestamp |-> -1]

RequestingNumCode(p) ==
    Active(p) /\ procs[p].op \in {"request-verification", "resend-code"}

\* router.post('/request-verification') up to await sendVerificationEmail
RequestVerification(p, name, email, password) ==
    /\ CanStart(p)
    /\ opsStarted' = opsStarted + 1
    /\ LET req == [IdleProc EXCEPT !.op = "request-verification", !.email = email,
                                   !.name = name, !.password = password]
       IN IF users[email].exists
          THEN /\ Finish(p, req, 400, "Email already registered")
               /\ UNCHANGED verificationCodes
          ELSE \E c \in Codes :
                 /\ verificationCodes' = [verificationCodes EXCEPT ![email] =
                        [code |-> c,
                         userData |-> [name |-> name, email |-> email,
                                       password |-> password],
                         timestamp |-> clock]]
                 /\ Await(p, [req EXCEPT !.pc = "sendMail", !.code = c])
    /\ UNCHANGED <<users, otps, clock, hist, codeTimers>>
    /\ UNCHANGED <<chatVars, envVars, scoreVars, authVars, issued>>

\* router.post('/resend-code') up to await sendVerificationEmail
ResendCode_DropsUserData(p, email) ==
    /\ CanStart(p)
    /\ opsStarted' = opsStarted + 1
    /\ LET req == [IdleProc EXCEPT !.op = "resend-code", !.email = email]
           existingVerification == verificationCodes[email]
       IN IF existingVerification = NoVerification
          THEN /\ Finish(p, req, 400, "No pending verification found")
               /\ UNCHANGED verificationCodes
          ELSE \E c \in Codes :
                 /\ verificationCodes' = [verificationCodes EXCEPT ![email] =
                        [NoVerification EXCEPT !.code = c, !.timestamp = clock]]
                 /\ Await(p, [req EXCEPT !.pc = "sendMail", !.code = c])
    /\ UNCHANGED <<users, otps, clock, hist, codeTimers>>
    /\ UNCHANGED <<chatVars, envVars, scoreVars, authVars, issued>>

ResendCode(p, email) ==
    /\ CanStart(p)
    /\ opsStarted' = opsStarted + 1
    /\ LET req == [IdleProc EXCEPT !.op = "resend-code", !.email = email]
           existingVerification == verificationCodes[email]
       IN IF existingVerification = NoVerification
          THEN /\ Finish(p, req, 400, "No pending verification found")
               /\ UNCHANGED verificationCodes
          ELSE \E c \in Codes :
                 /\ verificationCodes' = [verificationCodes EXCEPT ![email] =
                        [existingVerification EXCEPT !.code = c,
                                                     !.timestamp = clock]]
                 /\ Await(p, [req EXCEPT !.pc = "sendMail", !.code = c])
    /\ UNCHANGED <<users, otps, clock, hist, codeTimers>>
    /\ UNCHANGED <<chatVars, envVars, scoreVars, authVars, issued>>

\* the mail is sent: setTimeout(() => verificationCodes.delete(email),
\* 10 * 60 * 1000) and the 200 response
NumMailSent(p) ==
    /\ RequestingNumCode(p)
    /\ procs[p].pc = "sendMail"
    /\ codeTimers' = codeTimers \cup
            {[email |-> procs[p].email, due |-> clock + CODE_TTL]}
    /\ Finish(p, procs[p], 200, "")
    /\ UNCHANGED <<users, otps, clock, opsStarted, hist, verificationCodes>>
    /\ UNCHANGED <<chatVars, envVars, scoreVars, authVars, issued>>

\* sending the mail fails: catch, 500; no timer is armed
NumMailFails(p) ==
    /\ RequestingNumCode(p)
    /\ procs[p].pc = "sendMail"
    /\ Finish(p, procs[p], 500,
              IF procs[p].op = "request-verification"
              THEN "Failed to send verification code"
              ELSE "Failed to resend verification code")
    /\ UNCHANGED <<users, otps, clock, opsStarted, hist>>
    /\ UNCHANGED <<chatVars, numVars, envVars, scoreVars, authVars, issued>>

\* router.post('/verify-email') up to await bcrypt / user.save()
VerifyEmail(p, email, verificationCode) ==
    /\ CanStart(p)
    /\ opsStarted' = opsStarted + 1
    /\ LET req == [IdleProc EXCEPT !.op = "verify-email", !.email = email,
                                   !.code = verificationCode]
           verificationData == verificationCodes[email]
       IN IF verificationData = NoVerification
          THEN /\ Finish(p, req, 400, "Verification code expired or invalid")
               /\ UNCHANGED verificationCodes
          ELSE IF verificationData.code # verificationCode
          THEN /\ Finish(p, req, 400, "Invalid verification code")
               /\ UNCHANGED verificationCodes
          ELSE IF clock - verificationData.timestamp > CODE_TTL
          THEN /\ verificationCodes' =
                      [verificationCodes EXCEPT ![email] = NoVerification]
               /\ Finish(p, req, 400, "Verification code expired")
          ELSE /\ Await(p, [req EXCEPT !.pc = "saveUser",
                                       !.name = verificationData.userData.name,
                                       !.password = verificationData.userData.password])
               /\ UNCHANGED verificationCodes
    /\ UNCHANGED <<users, otps, clock, hist, codeTimers>>
    /\ UNCHANGED <<chatVars, envVars, scoreVars, authVars, issued>>

\* await user.save(), verificationCodes.delete(email), jwt.sign and the
\* response; a save or a jwt.sign that throws ends in the catch block (500)
VerifyEmailSave(p) ==
    /\ procs[p].op = "verify-email"
    /\ procs[p].pc = "saveUser"
    /\ LET email == procs[p].email
           doc == [exists |-> TRUE, name |-> procs[p].name,
                   password |-> Hash(procs[p].password),
                   role |-> "user", isVerified |-> TRUE]
           claims == [id |-> UserId(email), email |-> email, role |-> "user"]
       IN IF users[email].exists
          THEN /\ Finish(p, procs[p], 500, "Failed to verify email")
               /\ UNCHANGED <<users, verificationCodes, issued>>
          ELSE /\ users' = [users EXCEPT ![email] = doc]
               /\ verificationCodes' =
                      [verificationCodes EXCEPT ![email] = NoVerification]
               /\ IF SignThrows(jwtSecret)
                  THEN /\ Finish(p, procs[p], 500, "Failed to verify email")
                       /\ UNCHANGED issued
                  ELSE FinishToken(p, procs[p], 200, Sign(claims, jwtSecret, clock))
    /\ UNCHANGED <<otps, clock, opsStarted, hist, codeTimers>>
    /\ UNCHANGED <<chatVars, envVars, scoreVars, authVars>>

\* an expiry timer fires: verificationCodes.delete(email)
CodeTimerFires ==
    \E t \in codeTimers :
        /\ clock >= t.due
        /\ codeTimers' = codeTimers \ {t}
        /\ verificationCodes' = [verificationCodes EXCEPT ![t.email] = NoVerification]
        /\ lastResp' = NoResp
        /\ UNCHANGED <<users, otps, clock, procs, opsStarted, hist>>
        /\ UNCHANGED <<chatVars, envVars, scoreVars, authVars, issued>>

NumTick ==
    /\ clock + TickNum <= MaxNumClock
    /\ clock' = clock + TickNum
    /\ lastResp' = NoResp
    /\ UNCHANGED <<users, otps, procs, opsStarted, hist>>
    /\ UNCHANGED <<chatVars, numVars, envVars, scoreVars, authVars, issued>>

(***************************************************************************)
(* server.js: the relevance scorer, loadUrlDatabase() and                  *)
(* getRelevantUrls(query).  Strings are the strings of the program; the    *)
(* operators below are the String and Array methods the code calls.        *)
(***************************************************************************)
\* slice(0, 5)
TopN == 5

Char(s, i) == SubSeq(s, i, i)

UpperCaseLetters == "ABCDEFGHIJKLMNOPQRSTUVWXYZ"

LowerCaseLetters == "abcdefghijklmnopqrstuvwxyz"

LowerChar(c) ==
    IF \E i \in 1..Len(UpperCaseLetters) : Char(UpperCaseLetters, i) = c
    THEN Char(LowerCaseLetters,
              CHOOSE i \in 1..Len(UpperCaseLetters) : Char(UpperCaseLetters, i) = c)
    ELSE c

\* String.prototype.toLowerCase()
RECURSIVE ToLowerCase(_)
ToLowerCase(s) ==
    IF Len(s) = 0 THEN "" ELSE LowerChar(Char(s, 1)) \o ToLowerCase(Tail(s))

\* String.prototype.includes(t): every string includes the empty string
Includes(s, t) ==
    \E i \in 0..(Len(s) - Len(t)) : SubSeq(s, i + 1, i + Len(t)) = t

\* String.prototype.startsWith(t)
StartsWith(s, t) == Len(t) <= Len(s) /\ SubSeq(s, 1, Len(t)) = t

\* String.prototype.split(separator): the pieces of s between separators, in
\* order, the empty pieces at both ends included.  seps are the separator
\* characters; runs tells whether a run of them is one separator, as with
\* /\s+/ and /[-_\s]+/, or each of them is one, as with '/' and '.'
RECURSIVE SplitFrom(_, _, _, _, _)
SplitFrom(s, seps, runs, i, piece) ==
    IF i > Len(s)
    THEN <<piece>>
    ELSE IF Char(s, i) \in seps
    THEN IF runs /\ i > 1 /\ Char(s, i - 1) \in seps
         THEN SplitFrom(s, seps, runs, i + 1, piece)
         ELSE <<piece>> \o SplitFrom(s, seps, runs, i + 1, "")
    ELSE SplitFrom(s, seps, runs, i + 1, piece \o Char(s, i))

Split(s, seps, runs) == SplitFrom(s, seps, runs, 1, "")

\* the characters \s matches in the strings of the model
Whitespace == {" "}

\* Array.prototype.pop() on a fresh array: its last element
Pop(a) == a[Len(a)]

\* String.prototype.trim()
RECURSIVE Trim(_)
Trim(s) ==
    IF Len(s) > 0 /\ Char(s, 1) \in Whitespace THEN Trim(Tail(s))
    ELSE IF Len(s) > 0 /\ Char(s, Len(s)) \in Whitespace
    THEN Trim(SubSeq(s, 1, Len(s) - 1))
    ELSE s

\* decodeURIComponent on the escapes the URLs of the model contain
RECURSIVE DecodeURIComponent(_)
DecodeURIComponent(s) ==
    IF Len(s) = 0 THEN ""
    ELSE IF StartsWith(s, "%20")
    THEN " " \o DecodeURIComponent(SubSeq(s, 4, Len(s)))
    ELSE Char(s, 1) \o DecodeURIComponent(Tail(s))

\* String.prototype.replace(/[-_]/g, ' ')
RECURSIVE ReplaceDashes(_)
ReplaceDashes(s) ==
    IF Len(s) = 0 THEN ""
    ELSE (IF Char(s, 1) \in {"-", "_"} THEN " " ELSE Char(s, 1))
            \o ReplaceDashes(Tail(s))

\* loadUrlDatabase(): the lines of file_urls.txt, trimmed, without the empty
\* ones and those that contain 'logo', relative paths made absolute
AbsoluteUrl(url) ==
    IF ~StartsWith(url, "http")
    THEN "https://physicslabgmu.github.io/Lab_db"
            \o (IF StartsWith(url, "/") THEN "" ELSE "/") \o url
    ELSE url

RECURSIVE LoadUrlDatabase(_)
LoadUrlDatabase(lines) ==
    IF Len(lines) = 0 THEN <<>>
    ELSE LET line == Trim(Head(lines))
         IN (IF line # "" /\ ~Includes(line, "logo")
             THEN <<AbsoluteUrl(line)>> ELSE <<>>)
               \o LoadUrlDatabase(Tail(lines))

ImageTypes == {"jpg", "jpeg", "png", "gif"}

IsImageQuery(queryLower) ==
    \/ Includes(queryLower, "image")
    \/ Includes(queryLower, "picture")
    \/ Includes(queryLower, "photo")
    \/ Includes(queryLower, "show me")

\* const queryWords = queryLower.split(/\s+/)
QueryWords(queryLower) == Split(queryLower, Whitespace, TRUE)

FileName(url) == DecodeURIComponent(Pop(Split(url, {"/"}, FALSE)))

FileType(url) == ToLowerCase(Pop(Split(FileName(url), {"."}, FALSE)))

\* the body of queryWords.forEach for one query word; urlLower is
\* url.toLowerCase() and words is fileNameLower.split(/[-_\s]+/)
WordScore(urlLower, fileNameLower, words, queryWord) ==
    (IF \E k \in 1..Len(words) : Includes(words[k], queryWord) THEN 3 ELSE 0)
    + (IF Includes(fileNameLower, queryWord) THEN 2 ELSE 0)
    + (IF Includes(urlLower, queryWord) THEN 1 ELSE 0)

RECURSIVE SumWordScores(_, _, _, _)
SumWordScores(urlLower, fileNameLower, words, queryWords) ==
    IF Len(queryWords) = 0 THEN 0
    ELSE WordScore(urlLower, fileNameLower, words, Head(queryWords))
            + SumWordScores(urlLower, fileNameLower, words, Tail(queryWords))

\* the score urls.map gives to url
Score(url, query) ==
    LET queryLower == ToLowerCase(query)
        fileNameLower == ToLowerCase(FileName(url))
    IN (IF IsImageQuery(queryLower) /\ FileType(url) \in ImageTypes THEN 5 ELSE 0)
       + SumWordScores(ToLowerCase(url), fileNameLower,
                       Split(fileNameLower, {"-", "_"} \cup Whitespace, TRUE),
                       QueryWords(queryLower))

ScoredUrls(urls, query) ==
    [i \in 1..Len(urls) |->
        [url |-> urls[i], score |-> Score(urls[i], query),
         fileName |-> ReplaceDashes(Split(FileName(urls[i]), {"."}, FALSE)[1]),
         fileType |-> FileType(urls[i])]]

\* .filter(item => item.score > 0)
Relevant_NonNegative(item) == item.score >= 0

Relevant(item) == item.score > 0

\* .sort((a, b) => b.score - a.score): Array.prototype.sort is stable
RECURSIVE InsertByScore(_, _)
InsertByScore(sorted, item) ==
    IF Len(sorted) = 0 THEN <<item>>
    ELSE IF sorted[Len(sorted)].score >= item.score
    THEN Append(sorted, item)
    ELSE Append(InsertByScore(SubSeq(sorted, 1, Len(sorted) - 1), item),
                sorted[Len(sorted)])

RECURSIVE SortByScore(_)
SortByScore(items) ==
    IF Len(items) = 0 THEN <<>>
    ELSE InsertByScore(SortByScore(SubSeq(items, 1, Len(items) - 1)),
                       items[Len(items)])

\* .slice(0, n)
Slice(items, n) == SubSeq(items, 1, IF Len(items) < n THEN Len(items) ELSE n)

\* `${icon} [${fileName}](${url})`
Icon(fileType) ==
    IF fileType = "pdf" THEN "pdf"
    ELSE IF fileType \in ImageTypes THEN "image" ELSE "bullet"

FormatUrl(item) ==
    [icon |-> Icon(item.fileType), fileName |-> item.fileName, url |-> item.url]

GetRelevantUrls(urls, query) ==
    IF Len(urls) = 0
    THEN <<>>
    ELSE LET sortedUrls ==
                Slice(SortByScore(SelectSeq(ScoredUrls(urls, query), Relevant)), TopN)
         IN [i \in 1..Len(sortedUrls) |-> FormatUrl(sortedUrls[i])]

\* the lines of file_urls.txt the model draws its files from
UrlLines ==
    <<"/PHY161/pendulum_setup.jpg",
      "/PHY260/ac_circuit.jpg",
      "/PHY161/manual.pdf",
      "/PHY260/dc_circuit.jpg",
      "https://physicslabgmu.github.io/Lab_db/PHY161/lab%20manual-v2.PDF",
      " PHY260/circuit_notes.txt",
      "/PHY161/Pendulum-Photo.PNG",
      "/images/logo.png">>

Rotate(lines, k) == SubSeq(lines, k, Len(lines)) \o SubSeq(lines, 1, k - 1)

\* file_urls.txt: no line, one line, two lines, the three lines of the
\* pendulum example, or all the lines starting at any of them
UrlFiles ==
    {<<>>, SubSeq(UrlLines, 1, 3)}
    \cup {<<UrlLines[i]>> : i \in 1..Len(UrlLines)}
    \cup {<<UrlLines[ij[1]], UrlLines[ij[2]]>> :
             ij \in {ij \in (1..Len(UrlLines)) \X (1..Len(UrlLines)) :
                        ij[1] # ij[2]}}
    \cup {Rotate(UrlLines, k) : k \in 1..Len(UrlLines)}

PendulumQuery == "show me the pendulum image for phy 161"

Queries ==
    {PendulumQuery, "pendulum", "circuit", "circuit dc", "circuit ", "Circuit",
     "quantum", "photo", "manual pdf"}

\* a chat request with prompt q reaches const relevantUrls =
\* getRelevantUrls(prompt); an empty prompt is refused before
ScoreQuery(q) ==
    /\ q # ""
    /\ lastQuery' = q
    /\ relevantUrls' = GetRelevantUrls(urlDatabase, q)
    /\ UNCHANGED urlDatabase
    /\ UNCHANGED <<chatVars, otpVars, numVars, envVars, authVars, issued>>

(***************************************************************************)
(* auth-routes.js: router.post('/register') on the User collection of      *)
(* userSchema.  The collection is a sequence of documents; the unique      *)
(* index on email is what user.save() meets in the store.                  *)
(***************************************************************************)
RegisterEmails == {"", "a@x.com", "A@x.com", " a@X.com ", "b@x.com"}

RegisterNames == {"", "Al"}

RegisterPasswords == {"", "secret1"}

\* email.toLowerCase().trim()
NormalizeEmail(email) == Trim(ToLowerCase(email))

IdleReg == [pc |-> "idle", name |-> "", email |-> "", password |-> "",
            status |-> 0, error |-> "", token |-> NoToken, answeredAt |-> ""]

\* User.findOne({ email }): position of the first matching document, 0 if none
FindUser(docs, email) ==
    IF \E i \in 1..Len(docs) : docs[i].email = email
    THEN CHOOSE i \in 1..Len(docs) :
            /\ docs[i].email = email
            /\ \A j \in 1..(i - 1) : docs[j].email # email
    ELSE 0

\* email: { unique: true }: the index rejects an insert whose email is
\* already stored (err.code === 11000)
DuplicateKey_NoIndex(docs, email) == FALSE

DuplicateKey(docs, email) == \E i \in 1..Len(docs) : docs[i].email = email

\* res.status(st).json(...): history: answeredAt names the await after which
\* the handler answered
Answer(p, st, err, tok, at) ==
    regs' = [regs EXCEPT ![p].pc = "done", ![p].status = st, ![p].error = err,
                         ![p].token = tok, ![p].answeredAt = at]

\* the request is received: input validation, then await User.findOne(...)
AuthRegister(p, name, email, password) ==
    /\ regs[p].pc = "idle"
    /\ \A q \in Procs : q < p => regs[q].pc # "idle"
    /\ IF email = "" \/ password = "" \/ name = ""
       THEN regs' = [regs EXCEPT ![p] =
                [IdleReg EXCEPT !.pc = "done", !.name = name, !.email = email,
                                !.password = password, !.status = 400,
                                !.error = "All fields are required",
                                !.answeredAt = "validate"]]
       ELSE regs' = [regs EXCEPT ![p] =
                [IdleReg EXCEPT !.pc = "findOne", !.name = name,
                                !.email = email, !.password = password]]
    /\ UNCHANGED userDocs
    /\ UNCHANGED <<chatVars, otpVars, numVars, envVars, scoreVars, issued>>

\* const existingUser = await User.findOne(...) resolves; the JWT_SECRET
\* check; bcrypt.genSalt and bcrypt.hash; new User({...}); user.save() is sent
AuthRegisterFindOne(p) ==
    /\ regs[p].pc = "findOne"
    /\ IF FindUser(userDocs, NormalizeEmail(regs[p].email)) # 0
       THEN Answer(p, 400, "Email already registered", NoToken, "findOne")
       ELSE IF jwtSecret = ""
       THEN Answer(p, 500, "Server misconfiguration", NoToken, "findOne")
       ELSE regs' = [regs EXCEPT ![p].pc = "save"]
    /\ UNCHANGED userDocs
    /\ UNCHANGED <<chatVars, otpVars, numVars, envVars, scoreVars, issued>>

\* await user.save() settles: the duplicate-key rejection (400), or the
\* document is stored, jwt.sign and the 201 response
AuthRegisterSave(p) ==
    /\ regs[p].pc = "save"
    /\ LET user == [id |-> Len(userDocs) + 1,
                    email |-> NormalizeEmail(regs[p].email),
                    password |-> Hash(regs[p].password),
                    name |-> regs[p].name,
                    role |-> "user",
                    createdAt |-> clock]
           claims == [id |-> user.id, email |-> user.email, role |-> user.role]
       IN IF DuplicateKey(userDocs, user.email)
          THEN /\ Answer(p, 400, "Email already registered", NoToken, "save")
               /\ UNCHANGED userDocs
          ELSE /\ userDocs' = Append(userDocs, user)
               /\ Answer(p, 201, "", Sign(claims, jwtSecret, clock), "save")
    /\ UNCHANGED <<chatVars, otpVars, numVars, envVars, scoreVars, issued>>

Init ==
    /\ requestQueue = <<>>
    /\ isProcessing = FALSE
    /\ inflight = {}
    /\ timers = {}
    /\ now = 0
    /\ arrived = 0
    /\ respLog = <<>>
    /\ enqLog = <<>>
    /\ startLog = <<>>
    /\ lastDone = -1
    /\ users = [e \in Keys |-> NoUser]
    /\ otps = <<>>
    /\ clock = 0
    /\ procs = [p \in Procs |-> IdleProc]
    /\ opsStarted = 0
    /\ hist = [e \in Keys |-> NoHist]
    /\ lastResp = NoResp
    /\ verificationCodes = [e \in Keys |-> NoVerification]
    /\ codeTimers = {}
    /\ jwtSecret \in JwtSecrets
    /\ sessionLog = [tok \in TokenInputs |-> NoSession]
    /\ urlDatabase = <<>>
    /\ lastQuery = ""
    /\ relevantUrls = <<>>
    /\ userDocs = <<>>
    /\ regs = [p \in Procs |-> IdleReg]
    /\ issued = {}

\* a deployment whose JWT_SECRET is set; the OTP router of the deployment
\* without it is explored by SpecOtpPair
InitOtp == Init /\ ~SignThrows(jwtSecret)

Next ==
    \/ \E p \in Prompts : AuthChat(p)
    \/ \E p \in Prompts : Chat(p)
    \/ CallSucceeds
    \/ CallFails
    \/ TimerFires
    \/ Tick

Spec == Init /\ [][Next]_vars

(***************************************************************************)
(* The Serializer under the scheduling Node.js gives it, for generation    *)
(* calls that all settle: time goes on while a timer is pending, a timer   *)
(* that is due fires, and the promise of a call settles.  Nothing obliges  *)
(* a client to send a request.                                             *)
(***************************************************************************)
ClockRuns ==
    /\ \/ now + TickMs <= MaxNow
       \/ \E t \in timers : now < t.due
    /\ now' = now + TickMs
    /\ UNCHANGED <<requestQueue, isProcessing, inflight, timers, arrived,
                   respLog, enqLog, startLog, lastDone>>
    /\ UNCHANGED <<otpVars, numVars, envVars, scoreVars, authVars, issued>>

NextFair ==
    \/ \E p \in Prompts : AuthChat(p)
    \/ \E p \in Prompts : Chat(p)
    \/ CallSucceeds
    \/ CallFails
    \/ TimerFires
    \/ ClockRuns

Fairness ==
    /\ WF_vars(TimerFires)
    /\ WF_vars(ClockRuns)
    /\ WF_vars(CallSucceeds \/ CallFails)

SpecFair == InitOtp /\ [][NextFair]_vars /\ Fairness

NextOtp ==
    \/ \E p \in Procs, e \in EmailInputs : SendOtp(p, e)
    \/ \E p \in Procs, e \in EmailInputs : ResendOtp(p, e)
    \/ \E p \in Procs : OtpDeletePrior(p)
    \/ \E p \in Procs : OtpCreate(p)
    \/ \E p \in Procs : OtpMailSent(p)
    \/ \E p \in Procs : OtpMailFails(p)
    \/ \E p \in Procs, e \in EmailInputs, c \in CodeInputs : VerifyOtp(p, e, c)
    \/ \E p \in Procs : VerifyFindUser(p)
    \/ \E p \in Procs : VerifySaveUser(p)
    \/ \E p \in Procs : VerifyDeleteOtp(p)
    \/ \E p \in Procs, b \in RegisterBodies :
            Register(p, b.name, b.email, b.password, b.otp)
    \/ \E p \in Procs : RegisterFindOtp(p)
    \/ \E p \in Procs : RegisterDeleteOtp(p)
    \/ \E p \in Procs : RegisterSaveUser(p)
    \/ TtlPurge
    \/ ClockTick

SpecOtp == InitOtp /\ [][NextOtp]_vars

(***************************************************************************)
(* The OTP variant with two accounts, on a store that is not empty at      *)
(* start: the User collection outlives the process, and it can hold        *)
(* documents without the isVerified field (written before the field was    *)
(* added to the schema), which read as isVerified: false, the default.     *)
(***************************************************************************)
StoredUser(verified) ==
    [exists |-> TRUE, name |-> "Al", password |-> Hash("secret1"),
     role |-> "user", isVerified |-> verified]

StoredUsers == [Keys -> {NoUser} \cup {StoredUser(v) : v \in BOOLEAN}]

InitStored ==
    /\ requestQueue = <<>>
    /\ isProcessing = FALSE
    /\ inflight = {}
    /\ timers = {}
    /\ now = 0
    /\ arrived = 0
    /\ respLog = <<>>
    /\ enqLog = <<>>
    /\ startLog = <<>>
    /\ lastDone = -1
    /\ users \in StoredUsers
    /\ otps = <<>>
    /\ clock = 0
    /\ procs = [p \in Procs |-> IdleProc]
    /\ opsStarted = 0
    /\ hist = [e \in Keys |-> NoHist]
    /\ lastResp = NoResp
    /\ verificationCodes = [e \in Keys |-> NoVerification]
    /\ codeTimers = {}
    /\ jwtSecret \in JwtSecrets
    /\ sessionLog = [tok \in TokenInputs |-> NoSession]
    /\ urlDatabase = <<>>
    /\ lastQuery = ""
    /\ relevantUrls = <<>>
    /\ userDocs = <<>>
    /\ regs = [p \in Procs |-> IdleReg]
    /\ issued = {}

\* the well-formed bodies of /register for the two accounts
RegisterBodiesPair ==
    [name : {"Al"}, email : EmailInputsPair \ {""},
     password : {"secret1", "secret2"}, otp : Codes]

NextOtpPair ==
    \/ /\ opsStarted < MaxOpsPair
       /\ \/ \E p \in Procs, e \in EmailInputsPair : SendOtp(p, e)
          \/ \E p \in Procs, e \in EmailInputsPair : ResendOtp(p, e)
          \/ \E p \in Procs, e \in EmailInputsPair, c \in CodeInputs :
                VerifyOtp(p, e, c)
          \/ \E p \in Procs, b \in RegisterBodiesPair :
                Register(p, b.name, b.email, b.password, b.otp)
    \/ \E p \in Procs : OtpDeletePrior(p)
    \/ \E p \in Procs : OtpCreate(p)
    \/ \E p \in Procs : OtpMailSent(p)
    \/ \E p \in Procs : OtpMailFails(p)
    \/ \E p \in Procs : VerifyFindUser(p)
    \/ \E p \in Procs : VerifySaveUser(p)
    \/ \E p \in Procs : VerifyDeleteOtp(p)
    \/ \E p \in Procs : RegisterFindOtp(p)
    \/ \E p \in Procs : RegisterDeleteOtp(p)
    \/ \E p \in Procs : RegisterSaveUser(p)
    \/ TtlPurge
    \/ ClockTick

SpecOtpPair == InitStored /\ [][NextOtpPair]_vars

(***************************************************************************)
(* The OTP variant after one code has been issued for each account: the    *)
(* store holds the record that a completed resend-otp for the account left *)
(* there, and only verify-otp and register requests arrive, so that every  *)
(* record of the store is one issued code for the whole behaviour.         *)
(***************************************************************************)
IssuedCode == 1

IssuedOtps ==
    <<[email |-> "a@x.com", otp |-> Hash(IssuedCode), createdAt |-> 0],
      [email |-> "b@x.com", otp |-> Hash(IssuedCode), createdAt |-> 0]>>

InitIssued ==
    /\ requestQueue = <<>>
    /\ isProcessing = FALSE
    /\ inflight = {}
    /\ timers = {}
    /\ now = 0
    /\ arrived = 0
    /\ respLog = <<>>
    /\ enqLog = <<>>
    /\ startLog = <<>>
    /\ lastDone = -1
    /\ users \in StoredUsers
    /\ otps = IssuedOtps
    /\ clock = 0
    /\ procs = [p \in Procs |-> IdleProc]
    /\ opsStarted = 0
    /\ hist = [e \in Keys |-> [prev |-> 0, last |-> IssuedCode]]
    /\ lastResp = NoResp
    /\ verificationCodes = [e \in Keys |-> NoVerification]
    /\ codeTimers = {}
    /\ jwtSecret \in JwtSecrets
    /\ sessionLog = [tok \in TokenInputs |-> NoSession]
    /\ urlDatabase = <<>>
    /\ lastQuery = ""
    /\ relevantUrls = <<>>
    /\ userDocs = <<>>
    /\ regs = [p \in Procs |-> IdleReg]
    /\ issued = {}

NextOtpRace ==
    \/ /\ opsStarted < MaxOpsPair
       /\ \/ \E p \in Procs, e \in EmailInputsPair, c \in CodeInputs :
                VerifyOtp(p, e, c)
          \/ \E p \in Procs, b \in RegisterBodiesPair :
                Register(p, b.name, b.email, b.password, b.otp)
    \/ \E p \in Procs : VerifyFindUser(p)
    \/ \E p \in Procs : VerifySaveUser(p)
    \/ \E p \in Procs : VerifyDeleteOtp(p)
    \/ \E p \in Procs : RegisterFindOtp(p)
    \/ \E p \in Procs : RegisterDeleteOtp(p)
    \/ \E p \in Procs : RegisterSaveUser(p)
    \/ TtlPurge
    \/ ClockTick

SpecOtpRace == InitIssued /\ [][NextOtpRace]_vars

(***************************************************************************)
(* The OTP variant with login, started on an empty store, with JWT_SECRET  *)
(* set or not: every user record is one the router itself has written.     *)
(***************************************************************************)
NextOtpLogin ==
    \/ /\ opsStarted < MaxOpsLogin
       /\ \/ \E p \in Procs, e \in EmailInputs : SendOtp(p, e)
          \/ \E p \in Procs, e \in EmailInputs : ResendOtp(p, e)
          \/ \E p \in Procs, e \in EmailInputs, c \in CodeInputs : VerifyOtp(p, e, c)
          \/ \E p \in Procs, b \in RegisterBodies :
                Register(p, b.name, b.email, b.password, b.otp)
          \/ \E p \in Procs, e \in EmailInputs, w \in LoginPasswords :
                Login(p, e, w)
    \/ \E p \in Procs : OtpDeletePrior(p)
    \/ \E p \in Procs : OtpCreate(p)
    \/ \E p \in Procs : OtpMailSent(p)
    \/ \E p \in Procs : OtpMailFails(p)
    \/ \E p \in Procs : VerifyFindUser(p)
    \/ \E p \in Procs : VerifySaveUser(p)
    \/ \E p \in Procs : VerifyDeleteOtp(p)
    \/ \E p \in Procs : RegisterFindOtp(p)
    \/ \E p \in Procs : RegisterDeleteOtp(p)
    \/ \E p \in Procs : RegisterSaveUser(p)
    \/ \E p \in Procs : LoginCompare(p)
    \/ TtlPurge
    \/ ClockTick

SpecOtpLogin == Init /\ [][NextOtpLogin]_vars

(***************************************************************************)
(* Session tokens from issue to /verify: register, login and /verify on    *)
(* the store with one issued code per account, with JWT_SECRET set or not, *)
(* over the lifetime of a token.                                           *)
(***************************************************************************)
NextToken ==
    \/ /\ opsStarted < MaxOpsPair
       /\ \/ \E p \in Procs, b \in RegisterBodiesPair :
                Register(p, b.name, b.email, b.password, b.otp)
          \/ \E p \in Procs, e \in EmailInputsPair, w \in LoginPasswords :
                Login(p, e, w)
          \/ \E p \in Procs, tok \in TokenInputs : VerifySession(p, tok)
    \/ \E p \in Procs : RegisterFindOtp(p)
    \/ \E p \in Procs : RegisterDeleteOtp(p)
    \/ \E p \in Procs : RegisterSaveUser(p)
    \/ \E p \in Procs : LoginCompare(p)
    \/ TtlPurge
    \/ SessionTick

SpecToken == InitIssued /\ [][NextToken]_vars

NextSession ==
    \/ /\ opsStarted < MaxOpsSession
       /\ \/ \E p \in Procs, e \in EmailInputsPair, w \in LoginPasswords :
                Login(p, e, w)
          \/ \E p \in Procs, tok \in TokenInputs : VerifySession(p, tok)
    \/ \E p \in Procs : LoginCompare(p)
    \/ SessionTick

SpecSession == InitStored /\ [][NextSession]_vars

NextNum ==
    \/ \E p \in Procs, n \in NumNames, e \in NumEmails, w \in Passwords :
            RequestVerification(p, n, e, w)
    \/ \E p \in Procs, e \in NumEmails : ResendCode(p, e)
    \/ \E p \in Procs : NumMailSent(p)
    \/ \E p \in Procs : NumMailFails(p)
    \/ \E p \in Procs, e \in NumEmails, c \in CodeInputs : VerifyEmail(p, e, c)
    \/ \E p \in Procs : VerifyEmailSave(p)
    \/ CodeTimerFires
    \/ NumTick

SpecNum == Init /\ [][NextNum]_vars

(***************************************************************************)
(* The numeric-code variant under the scheduling Node.js gives it: time    *)
(* goes on while a timer is pending, a timer that is due fires, and every  *)
(* pending promise (the mail, the save) settles.  Nothing obliges a client *)
(* to send a request.                                                      *)
(***************************************************************************)
NumClockRuns ==
    /\ \/ clock + TickNum <= MaxNumClock
       \/ \E t \in codeTimers : clock < t.due
    /\ clock' = clock + TickNum
    /\ lastResp' = NoResp
    /\ UNCHANGED <<users, otps, procs, opsStarted, hist>>
    /\ UNCHANGED <<chatVars, numVars, envVars, scoreVars, authVars, issued>>

NextNumFair ==
    \/ /\ opsStarted < MaxOpsNumFair
       /\ \/ \E p \in Procs, n \in NumNames, e \in NumEmails, w \in Passwords :
                RequestVerification(p, n, e, w)
          \/ \E p \in Procs, e \in NumEmails : ResendCode(p, e)
          \/ \E p \in Procs, e \in NumEmails, c \in CodeInputs : VerifyEmail(p, e, c)
    \/ \E p \in Procs : NumMailSent(p)
    \/ \E p \in Procs : NumMailFails(p)
    \/ \E p \in Procs : VerifyEmailSave(p)
    \/ CodeTimerFires
    \/ NumClockRuns

NumFairness ==
    /\ WF_vars(CodeTimerFires)
    /\ WF_vars(NumClockRuns)
    /\ \A p \in Procs : WF_vars(NumMailSent(p) \/ NumMailFails(p))
    /\ \A p \in Procs : WF_vars(VerifyEmailSave(p))

SpecNumFair == InitOtp /\ [][NextNumFair]_vars /\ NumFairness

(***************************************************************************)
(* server.js: app.post('/api/auth/chat') calls generateContent() itself.   *)
(* Its processQueue() has no caller, so requestQueue stays empty and       *)
(* isProcessing stays false.                                               *)
(***************************************************************************)
ServerAuthChat(prompt) ==
    /\ arrived < MaxReq
    /\ arrived' = arrived + 1
    /\ IF prompt = ""
       THEN /\ respLog' = Append(respLog,
                   [req |-> arrived + 1, gen |-> "none", resp |-> EmptyPromptResponse])
            /\ UNCHANGED <<inflight, startLog>>
       ELSE /\ inflight' = inflight \cup {[req |-> arrived + 1, prompt |-> prompt]}
            /\ startLog' = Append(startLog,
                   [req |-> arrived + 1, at |-> now, prevDone |-> lastDone])
            /\ UNCHANGED respLog
    /\ UNCHANGED <<requestQueue, isProcessing, timers, now, enqLog, lastDone>>
    /\ UNCHANGED <<otpVars, numVars, envVars, scoreVars, authVars, issued>>

ServerCallSettles(item, ok) ==
    /\ item \in inflight
    /\ inflight' = inflight \ {item}
    /\ respLog' = Append(respLog,
            [req |-> item.req,
             gen |-> IF ok THEN "fulfilled" ELSE "rejected",
             resp |-> IF ok THEN SuccessResponse ELSE ServerError])
    /\ lastDone' = now
    /\ UNCHANGED <<requestQueue, isProcessing, timers, now, arrived, enqLog, startLog>>
    /\ UNCHANGED <<otpVars, numVars, envVars, scoreVars, authVars, issued>>

ServerCallSucceeds == \E item \in inflight : ServerCallSettles(item, TRUE)

ServerCallFails == \E item \in inflight : ServerCallSettles(item, FALSE)

NextServer ==
    \/ \E p \in Prompts : ServerAuthChat(p)
    \/ ServerCallSucceeds
    \/ ServerCallFails

SpecServer == Init /\ [][NextServer]_vars

(***************************************************************************)
(* auth-routes.js /register: two requests at a time, on a User collection  *)
(* that is empty or holds an account stored before the process started     *)
(* (createdAt -1); JWT_SECRET is configuration the deployment supplies.    *)
(***************************************************************************)
StoredDoc ==
    [id |-> 1, email |-> "a@x.com", password |-> Hash("secret2"),
     name |-> "Al", role |-> "user", createdAt |-> -1]

InitAuthRoutes ==
    /\ requestQueue = <<>>
    /\ isProcessing = FALSE
    /\ inflight = {}
    /\ timers = {}
    /\ now = 0
    /\ arrived = 0
    /\ respLog = <<>>
    /\ enqLog = <<>>
    /\ startLog = <<>>
    /\ lastDone = -1
    /\ users = [e \in Keys |-> NoUser]
    /\ otps = <<>>
    /\ clock = 0
    /\ procs = [p \in Procs |-> IdleProc]
    /\ opsStarted = 0
    /\ hist = [e \in Keys |-> NoHist]
    /\ lastResp = NoResp
    /\ verificationCodes = [e \in Keys |-> NoVerification]
    /\ codeTimers = {}
    /\ jwtSecret = "s3cret"
    /\ sessionLog = [tok \in TokenInputs |-> NoSession]
    /\ urlDatabase = <<>>
    /\ lastQuery = ""
    /\ relevantUrls = <<>>
    /\ userDocs \in {<<>>, <<StoredDoc>>}
    /\ regs = [p \in Procs |-> IdleReg]
    /\ issued = {}

NextAuthRoutes ==
    \/ \E p \in Procs, name \in RegisterNames, email \in RegisterEmails,
          password \in RegisterPasswords : AuthRegister(p, name, email, password)
    \/ \E p \in Procs : AuthRegisterFindOne(p)
    \/ \E p \in Procs : AuthRegisterSave(p)

SpecAuthRoutes == InitAuthRoutes /\ [][NextAuthRoutes]_vars

(***************************************************************************)
(* server.js after loadUrlDatabase() has run at startup: the scorer on the *)
(* loaded URLs                                                             *)
(***************************************************************************)
InitScorer ==
    /\ requestQueue = <<>>
    /\ isProcessing = FALSE
    /\ inflight = {}
    /\ timers = {}
    /\ now = 0
    /\ arrived = 0
    /\ respLog = <<>>
    /\ enqLog = <<>>
    /\ startLog = <<>>
    /\ lastDone = -1
    /\ users = [e \in Keys |-> NoUser]
    /\ otps = <<>>
    /\ clock = 0
    /\ procs = [p \in Procs |-> IdleProc]
    /\ opsStarted = 0
    /\ hist = [e \in Keys |-> NoHist]
    /\ lastResp = NoResp
    /\ verificationCodes = [e \in Keys |-> NoVerification]
    /\ codeTimers = {}
    /\ jwtSecret = "s3cret"
    /\ sessionLog = [tok \in TokenInputs |-> NoSession]
    /\ urlDatabase \in {LoadUrlDatabase(lines) : lines \in UrlFiles}
    /\ lastQuery = ""
    /\ relevantUrls = <<>>
    /\ userDocs = <<>>
    /\ regs = [p \in Procs |-> IdleReg]
    /\ issued = {}

NextScorer == \E q \in Queries : ScoreQuery(q)

SpecScorer == InitScorer /\ [][NextScorer]_vars

(***************************************************************************)
(* Properties of the Serializer                                            *)
(***************************************************************************)
StartedReqs == [i \in 1..Len(startLog) |-> startLog[i].req]

QueueResponses == SelectSeq(respLog, LAMBDA e : e.gen # "none")

AnsweredReqs == [i \in 1..Len(QueueResponses) |-> QueueResponses[i].req]

IsPrefix(s, t) == Len(s) <= Len(t) /\ \A i \in 1..Len(s) : s[i] = t[i]

Range(s) == {s[i] : i \in 1..Len(s)}

\* C1: in every reachable state of the Serializer at most one call to the
\* external generation function is in flight, whatever the interleaving of
\* arrivals on both chat endpoints, call completions and timer firings.
C1_AtMostOneCallInFlight == Cardinality(inflight) <= 1

C1_Witness ==
    /\ Cardinality(inflight) = 1
    /\ Len(requestQueue) > 0
    /\ \E t \in timers : now >= t.due

\* C2: generation calls start in the order the requests were enqueued and
\* their responses are resolved in that same order: the started requests and
\* the answered requests are both prefixes of the enqueue order.
C2_FifoOrder ==
    /\ IsPrefix(StartedReqs, enqLog)
    /\ IsPrefix(AnsweredReqs, enqLog)

C2_Witness == Len(AnsweredReqs) >= 2 /\ Len(enqLog) = MaxReq

\* C3: every generation call that follows another one starts no earlier
\* than RATE_LIMIT_DELAY after the previous call completed.
C3_CooldownBetweenCalls ==
    \A i \in 1..Len(startLog) :
        startLog[i].prevDone >= 0 =>
            startLog[i].at - startLog[i].prevDone >= RATE_LIMIT_DELAY

Draining == inflight # {}

CoolingDown ==
    /\ inflight = {}
    /\ lastDone >= 0
    /\ \E t \in timers : t.due = lastDone + RATE_LIMIT_DELAY

\* C4: an enqueue that happens while a call is in flight (Draining) or while
\* the cooldown timer of the latest call is still pending (CoolingDown) only
\* appends to the queue and starts no generation call.
C4_EnqueueWhileNotIdleOnlyAppends ==
    [][(Len(enqLog') = Len(enqLog) + 1 /\ (Draining \/ CoolingDown))
          => (startLog' = startLog /\ inflight' = inflight)]_vars

\* C5: in server.js every generation call is made by processQueue on an item
\* taken from requestQueue (the handler only enqueues), so at most one
\* generation call is in flight under concurrent chat requests.
C5_ServerCallsOnlyFromQueue ==
    /\ Range(StartedReqs) \subseteq Range(enqLog)
    /\ Cardinality(inflight) <= 1

\* C6: a failed generation call is answered with HTTP 500 'Please wait a
\* moment and try again.', the item is neither re-enqueued nor retried (every
\* request has at most one generation call), and the drain goes on: while
\* items wait and no call is in flight a cooldown timer is pending.
C6_FailureSurfacedNotRetried ==
    /\ \A i \in 1..Len(respLog) :
          respLog[i].gen = "rejected" =>
             /\ respLog[i].resp.status = 500
             /\ respLog[i].resp.message = "Please wait a moment and try again."
             /\ \A k \in 1..Len(requestQueue) : requestQueue[k].req # respLog[i].req
             /\ \A it \in inflight : it.req # respLog[i].req
    /\ \A i, j \in 1..Len(startLog) : startLog[i].req = startLog[j].req => i = j
    /\ (~isProcessing /\ Len(requestQueue) > 0) => timers # {}

C6_Witness ==
    \E i \in 1..Len(respLog) :
        /\ respLog[i].gen = "rejected"
        /\ \E j \in 1..Len(startLog) : startLog[j].req > respLog[i].req

\* C27: while a generation call is in flight and does not settle, no other
\* generation call starts, no enqueued request is answered and no queued
\* item leaves the queue, whatever arrives, whichever timer fires and however
\* much time passes; the call leaves only by settling, which answers its
\* own request.
C27_HungCallStallsSerializer ==
    [][inflight # {} =>
          /\ inflight' = inflight
                => (/\ startLog' = startLog
                    /\ QueueResponses' = QueueResponses
                    /\ IsPrefix(requestQueue, requestQueue'))
          /\ inflight' # inflight
                => \E item \in inflight :
                      /\ inflight' = inflight \ {item}
                      /\ Len(QueueResponses') = Len(QueueResponses) + 1
                      /\ QueueResponses'[Len(QueueResponses')].req = item.req
                      /\ startLog' = startLog]_vars

C27_Witness ==
    /\ inflight # {}
    /\ Len(requestQueue) > 0
    /\ lastDone >= 0
    /\ timers = {}
    /\ now - startLog[Len(startLog)].at >= RATE_LIMIT_DELAY + TickMs

\* C28: when timers fire and every generation call settles, every enqueued
\* chat request is eventually answered, with no further arrival needed, and
\* the Serializer comes to rest again and again: the queue is empty and no
\* call is in flight.
C28_EveryRequestAnswered ==
    /\ \A r \in 1..MaxReq :
          (r \in Range(enqLog)) ~> (r \in Range(AnsweredReqs))
    /\ []<>(requestQueue = <<>> /\ inflight = {})

\* the last request the model admits was answered (400, empty prompt) before
\* any call settled, so the one enqueued before it arrived while the first
\* call was in flight and no arrival was left to start it: a timer did
C28_Witness ==
    /\ Len(respLog) = MaxReq
    /\ respLog[1].req = MaxReq
    /\ respLog[1].gen = "none"
    /\ Len(enqLog) = MaxReq - 1
    /\ Len(AnsweredReqs) = Len(enqLog)
    /\ requestQueue = <<>>
    /\ inflight = {}

QueuedReqs == {requestQueue[i].req : i \in 1..Len(requestQueue)}

InflightReqs == {item.req : item \in inflight}

\* C32: every chat request accepted into the queue receives exactly one
\* HTTP response, the success response or the transient-error response:
\* never none once its call has completed and never two; and an item leaves
\* requestQueue only by being taken by processQueue, which makes the
\* generation call for it: at all times the enqueued requests are those
\* queued, those in flight and those answered, each in one of the three.
C32_OneResponsePerRequest ==
    /\ Range(enqLog) = QueuedReqs \cup InflightReqs \cup Range(AnsweredReqs)
    /\ Len(enqLog) = Len(requestQueue) + Cardinality(inflight) + Len(QueueResponses)
    /\ Range(StartedReqs) = InflightReqs \cup Range(AnsweredReqs)
    /\ Len(startLog) = Cardinality(inflight) + Len(QueueResponses)
    /\ \A i, j \in 1..Len(QueueResponses) :
          QueueResponses[i].req = QueueResponses[j].req => i = j
    /\ \A i \in 1..Len(QueueResponses) :
          QueueResponses[i].resp \in {SuccessResponse, TransientError}

C32_Witness ==
    /\ Len(requestQueue) > 0
    /\ inflight # {}
    /\ Len(QueueResponses) > 0
    /\ QueueResponses[1].resp = TransientError
    /\ Len(enqLog) = MaxReq

\* C33: isProcessing is true in exactly the states where a generation call
\* is in flight: it is set in the same step that removes the head of the
\* queue, and it is reset to false after a successful and after a failed
\* call, so it is never left true with no call in flight.
C33_BusyFlagMeansCallInFlight ==
    /\ [](isProcessing <=> inflight # {})
    /\ [][/\ Len(startLog') > Len(startLog) =>
               /\ ~isProcessing
               /\ isProcessing'
               /\ \E item \in inflight' \ inflight :
                     /\ item.req = startLog'[Len(startLog')].req
                     /\ item.req \notin QueuedReqs'
          /\ Len(QueueResponses') > Len(QueueResponses) =>
               /\ isProcessing
               /\ ~isProcessing'
               /\ inflight' = {}]_vars

\* a call has failed and left the flag false while a request waits
C33_Witness ==
    /\ ~isProcessing
    /\ inflight = {}
    /\ Len(requestQueue) > 0
    /\ Len(QueueResponses) > 0
    /\ QueueResponses[Len(QueueResponses)].resp = TransientError

\* C34: a cooldown timer that fires while a generation call is in flight,
\* or while the queue is empty, leaves the queue, the busy flag and all
\* pending responses unchanged and starts no call; any number of such
\* pending timers may coexist without breaking mutual exclusion or FIFO
\* order.
C34_IdleTimerChangesNothing ==
    /\ [](Cardinality(inflight) <= 1 /\ IsPrefix(StartedReqs, enqLog))
    /\ [][(/\ timers' # timers
           /\ timers' \subseteq timers
           /\ inflight # {} \/ requestQueue = <<>>)
          => /\ requestQueue' = requestQueue
             /\ isProcessing' = isProcessing
             /\ inflight' = inflight
             /\ respLog' = respLog
             /\ startLog' = startLog]_vars

\* two timers were pending together and one of them has fired without
\* starting a call: all three calls started before any timer was due
C34_Witness ==
    /\ Len(startLog) = 3
    /\ \A i \in 2..3 : startLog[i].at < startLog[i].prevDone + RATE_LIMIT_DELAY
    /\ Len(QueueResponses) = 2
    /\ QueueResponses[1].resp # QueueResponses[2].resp
    /\ Cardinality(timers) = 1
    /\ inflight # {}

\* C35: a chat request with a missing or empty prompt is answered with 400
\* ('Please enter a message') and has no effect on the Serializer: nothing
\* is appended to the queue, the busy flag is unchanged and no generation
\* call is started.
C35_EmptyPromptNoEffect ==
    [][(arrived' # arrived /\ (AuthChat("") \/ Chat("")))
          => /\ respLog' = Append(respLog, [req |-> arrived', gen |-> "none",
                                             resp |-> EmptyPromptResponse])
             /\ EmptyPromptResponse.status = 400
             /\ EmptyPromptResponse.message = "Please enter a message"
             /\ requestQueue' = requestQueue
             /\ isProcessing' = isProcessing
             /\ inflight' = inflight
             /\ timers' = timers
             /\ enqLog' = enqLog
             /\ startLog' = startLog]_vars

\* the latest request had no prompt and was refused while one call was in
\* flight and another request was waiting
C35_Witness ==
    /\ Len(respLog) > 0
    /\ respLog[Len(respLog)].req = arrived
    /\ respLog[Len(respLog)].resp = EmptyPromptResponse
    /\ inflight # {}
    /\ Len(requestQueue) > 0

\* C38: when a chat request is enqueued while the Serializer is idle (no
\* call in flight, queue empty, no cooldown pending), its generation call
\* starts immediately, in the same step as the enqueue, without waiting for
\* any timer.
C38_IdleEnqueueStartsAtOnce ==
    [][(/\ enqLog' # enqLog
        /\ inflight = {}
        /\ requestQueue = <<>>
        /\ timers = {})
          => /\ isProcessing'
             /\ requestQueue' = <<>>
             /\ InflightReqs' = {arrived'}
             /\ Len(startLog') = Len(startLog) + 1
             /\ startLog'[Len(startLog')].req = arrived'
             /\ startLog'[Len(startLog')].at = now
             /\ timers' = timers]_vars

\* the first request arrives some time after startup, when no call has
\* ever been made and no timer armed, and its call is in flight
C38_Witness ==
    /\ now > 0
    /\ lastDone = -1
    /\ timers = {}
    /\ Len(enqLog) = 1
    /\ Len(startLog) = 1
    /\ startLog[1].at = now
    /\ InflightReqs = {enqLog[1]}
    /\ requestQueue = <<>>

(***************************************************************************)
(* Properties of the OTP variant                                           *)
(***************************************************************************)
LiveRecords(e) == {i \in 1..Len(otps) : otps[i].email = e}

\* C7: in every reachable state at most one OTP record is stored per email,
\* also when send-otp / resend-otp requests for one email interleave between
\* their delete-prior and create store accesses.
C7_AtMostOneOtpPerEmail ==
    \A e \in Keys : Cardinality(LiveRecords(e)) <= 1

\* a verify-otp request for (e, c) is received in this step
VerifyReceived(e, c) ==
    /\ opsStarted' = opsStarted + 1
    /\ \/ /\ lastResp'.op = "verify-otp"
          /\ lastResp'.email = e
          /\ lastResp'.code = c
       \/ \E p \in Procs :
             /\ ~Active(p)
             /\ procs'[p].op = "verify-otp"
             /\ procs'[p].email = e
             /\ procs'[p].code = c

\* C8: verify-otp for an email that has a live code, with a code that matches
\* no live record of that email, answers 400 'Invalid verification code' and
\* changes neither the stored code records nor the user records; the live
\* code stays verifiable: a verify-otp with the code of the record the store
\* returns passes the check and is answered 200.
C8_WrongCodeInvalidNoEffect ==
    [][/\ \A e \in EmailInputs \ {""}, c \in Codes :
            /\ (/\ VerifyReceived(e, c)
                /\ LiveRecords(ToLower(e)) # {}
                /\ \A i \in LiveRecords(ToLower(e)) : otps[i].otp # <<"bcrypt", c>>)
               => (/\ lastResp' = [NoResp EXCEPT !.op = "verify-otp", !.email = e,
                                       !.code = c, !.status = 400,
                                       !.error = "Invalid verification code"]
                   /\ otps' = otps
                   /\ users' = users
                   /\ procs' = procs)
            /\ (/\ VerifyReceived(e, c)
                /\ FindOneRec(otps, ToLower(e)).otp = <<"bcrypt", c>>)
               => \E p \in Procs : /\ procs'[p].op = "verify-otp"
                                   /\ procs'[p].pc = "findUser"
                                   /\ procs'[p].code = c
       /\ \A p \in Procs :
            (procs[p].op = "verify-otp" /\ Active(p) /\ procs'[p].pc = "idle")
               => lastResp'.status = 200]_vars

C8_Witness ==
    /\ lastResp.op = "verify-otp"
    /\ lastResp.error = "Invalid verification code"
    /\ LiveRecords(ToLower(lastResp.email)) # {}
    /\ \A i \in LiveRecords(ToLower(lastResp.email)) :
          otps[i].otp # <<"bcrypt", lastResp.code>>

\* a verify-otp or register handler sends its response in this step
Answers(p) ==
    /\ procs[p].op \in {"verify-otp", "register"}
    /\ Active(p)
    /\ procs'[p].pc = "idle"

\* C9: after two send/resend requests for an email have completed one after
\* the other with codes c1 then c2, c1 # c2, a later verify-otp or register
\* that presents c1 is rejected (400): only c2 is accepted.
C9_SupersededCodeRejected ==
    [][\A p \in Procs :
          (Answers(p) /\ procs[p].stale) => lastResp'.status = 400]_vars

\* C10: verify-otp and register reject with Expired any code whose record
\* was older than the TTL when it was checked, also while the store's TTL
\* purge has not yet removed the record.
C10_ExpiredCodeRejected ==
    [][\A p \in Procs :
          (/\ Answers(p)
           /\ procs[p].rec # NoRec
           /\ procs[p].checkedAt - procs[p].rec.createdAt > OTP_TTL)
          => (/\ lastResp'.status = 400
              /\ lastResp'.error = "Verification code expired or invalid")]_vars

\* a send-otp request for e is received in this step
SendOtpReceived(e) ==
    /\ opsStarted' = opsStarted + 1
    /\ \/ (lastResp'.op = "send-otp" /\ lastResp'.email = e)
       \/ \E p \in Procs :
             ~Active(p) /\ procs'[p].op = "send-otp" /\ procs'[p].email = e

\* C12: registration end-to-end for an email with no user record: send-otp
\* for it is not refused but issues a code, and a register with a valid
\* name and password that follows the 200 of verify-otp with the same code is
\* answered 201 with a token whose claims carry the lowercased email.
C12_RegistrationEndToEnd ==
    [][/\ \A e \in EmailInputs \ {""} :
            (SendOtpReceived(e) /\ ~users[ToLower(e)].exists)
               => \E p \in Procs : /\ procs'[p].op = "send-otp"
                                   /\ procs'[p].email = e
                                   /\ procs'[p].pc = "deleteOtp"
       /\ \A p \in Procs :
            (/\ Answers(p)
             /\ procs[p].op = "register"
             /\ procs[p].afterVerify
             /\ NameLength(procs[p].name) >= 2)
            => (/\ lastResp'.status = 201
                /\ lastResp'.token.form = "jwt"
                /\ lastResp'.token.payload.email = Key(p))]_vars

\* a register request for e is received in this step
RegisterReceived(e) ==
    /\ opsStarted' = opsStarted + 1
    /\ \/ (lastResp'.op = "register" /\ lastResp'.email = e)
       \/ \E p \in Procs :
             ~Active(p) /\ procs'[p].op = "register" /\ procs'[p].email = e

\* C13: a register request that arrives when a verified user exists for its
\* email is answered 400 at once and changes neither the user records nor
\* the stored codes, also when it carries the code of a live record; when
\* its body passes the input checks the error is 'Email already registered'.
C13_RegisterConflict ==
    [][\A e \in EmailInputs \ {""} :
          (/\ RegisterReceived(e)
           /\ users[ToLower(e)].exists
           /\ users[ToLower(e)].isVerified)
          => (/\ lastResp'.op = "register"
              /\ lastResp'.status = 400
              /\ users' = users
              /\ otps' = otps
              /\ \A p \in Procs, b \in RegisterBodies :
                    (/\ b.email = e
                     /\ b.name # ""
                     /\ b.otp # 0
                     /\ PasswordLength(b.password) >= 6
                     /\ Register(p, b.name, b.email, b.password, b.otp))
                    => lastResp'.error = "Email already registered")]_vars

C13_Witness ==
    /\ lastResp.op = "register"
    /\ lastResp.error = "Email already registered"
    /\ users[ToLower(lastResp.email)].isVerified
    /\ FindOneRec(otps, ToLower(lastResp.email)).otp = <<"bcrypt", lastResp.code>>

\* the register handler of slot p takes a step that sends its response
RegisterAnswers(p) == Answers(p) /\ procs[p].op = "register"

\* C14: register stores a user record, or answers 201 with a token, only when
\* its check found a stored OTP record of the same email whose hash matches
\* the supplied code; a register that is answered at once (input checks,
\* conflict), or whose check finds no record or a record that does not match,
\* is answered 400 and leaves every user record unchanged.
C14_RegisterNeedsMatchingCode ==
    [][/\ \A p \in Procs :
            /\ (RegisterAnswers(p) /\ (users' # users \/ lastResp'.status = 201
                                          \/ lastResp'.token # NoToken))
                  => (/\ procs[p].rec.email = Key(p)
                      /\ procs[p].rec.otp = <<"bcrypt", procs[p].code>>)
            /\ (RegisterAnswers(p) /\ lastResp'.status = 201)
                  => (/\ lastResp'.token.form = "jwt"
                      /\ users'[Key(p)].exists
                      /\ users'[Key(p)].isVerified)
            /\ (procs[p].op = "register" /\ procs[p].pc = "findOtp"
                    /\ procs'[p].pc # "findOtp")
                  => IF FindOneRec(otps, Key(p)).otp = <<"bcrypt", procs[p].code>>
                     THEN procs'[p].pc = "deleteOtp" /\ procs'[p].rec = FindOneRec(otps, Key(p))
                     ELSE /\ procs'[p].pc = "idle"
                          /\ lastResp'.status = 400
                          /\ users' = users
       /\ \A e \in EmailInputs :
            (RegisterReceived(e) /\ lastResp'.op = "register")
               => (lastResp'.status = 400 /\ users' = users)]_vars

C14_Witness ==
    /\ lastResp.op = "register"
    /\ lastResp.status = 201
    /\ lastResp.token.payload.email = ToLower(lastResp.email)
    /\ users[ToLower(lastResp.email)].isVerified

\* C15: the verification flag of an email goes from false to true only in a
\* step of a verify-otp or register handler for that same email whose check
\* found a stored record of that email matching the supplied code; a check
\* never takes the record of another email; and a verify-otp for an email
\* without stored record is answered 400 'Verification code expired or
\* invalid' and changes no user, whatever codes other emails have.
C15_VerifiedOnlyByOwnCode ==
    [][/\ \A e \in Keys :
            (~users[e].isVerified /\ users'[e].isVerified)
               => \E p \in Procs :
                     /\ procs[p].op \in {"verify-otp", "register"}
                     /\ Key(p) = e
                     /\ procs'[p].pc # procs[p].pc
                     /\ procs[p].rec.email = e
                     /\ procs[p].rec.otp = <<"bcrypt", procs[p].code>>
       /\ \A p \in Procs :
            procs'[p].rec # NoRec => procs'[p].rec.email = ToLower(procs'[p].email)
       /\ \A e \in EmailInputsPair \ {""}, c \in Codes :
            (VerifyReceived(e, c) /\ LiveRecords(ToLower(e)) = {})
               => (/\ lastResp'.status = 400
                   /\ lastResp'.error = "Verification code expired or invalid"
                   /\ users' = users)]_vars

C15_Witness ==
    \E p \in Procs :
        /\ procs[p].op = "verify-otp"
        /\ procs[p].pc = "deleteOtp"
        /\ procs[p].usr.exists
        /\ ~procs[p].usr.isVerified
        /\ users[Key(p)].isVerified

\* C20: a register or verify-otp call that ends in an error response has
\* not consumed a code: a handler whose delete removed an OTP record answers
\* with success; and a stored record disappears only in a delete step of a
\* send/resend, verify-otp or register handler for its email or, once it is
\* as old as the TTL, by the purge.
C20_ErrorLeavesCodeInPlace ==
    [][/\ \A p \in Procs :
            (Answers(p) /\ lastResp'.status >= 400)
               => (/\ ~procs[p].consumed
                   /\ otps' = otps)
       /\ Len(otps') < Len(otps)
            => \/ \E p \in Procs :
                    /\ procs[p].pc = "deleteOtp"
                    /\ procs'[p].pc # "deleteOtp"
                    /\ otps' = FindOneAndDelete(otps, Key(p))
               \/ \E i \in 1..Len(otps) :
                    /\ clock - otps[i].createdAt >= OTP_TTL
                    /\ otps' = RemoveAt(otps, i)]_vars

\* the response r reports a successful verify-otp or register for e
SuccessFor(r, e) ==
    /\ r.op \in {"verify-otp", "register"}
    /\ r.status \in {200, 201}
    /\ r.email # ""
    /\ ToLower(r.email) = e

\* C29: each issued code leads to at most one successful operation among
\* verify-otp and register for its email, under any interleaving of
\* concurrent requests that present the same correct code.  No code is
\* issued during a behaviour of SpecOtpRace, so two successes for one email
\* are two successes of the one code issued for it; stated for successes
\* answered in two consecutive steps.
C29_CodeUsedAtMostOnce ==
    [][\A p \in Procs :
          ~(/\ Answers(p)
            /\ SuccessFor(lastResp, Key(p))
            /\ SuccessFor(lastResp', Key(p)))]_vars

\* a send-otp request of handler p is answered 200 in this step
SendOtpSucceeds(p) ==
    /\ procs[p].op = "send-otp"
    /\ procs[p].pc = "sendMail"
    /\ procs'[p].pc = "idle"
    /\ lastResp'.status = 200

\* C36: in the OTP variant started from an empty store, every user record
\* in every reachable state has its verification flag set, so login never
\* answers 'Email not verified', and send-otp never succeeds for an email
\* before a register for it has succeeded (a 201, which carries a token
\* for the email).
C36_EveryUserVerified ==
    /\ [](\A e \in Keys : users[e].exists => users[e].isVerified)
    /\ [][lastResp'.op = "login" =>
             /\ ~lastResp'.needsVerification
             /\ lastResp'.error # "Email not verified"]_vars
    /\ [][\A p \in Procs :
             SendOtpSucceeds(p) =>
                \E tok \in issued : tok.payload.email = Key(p)]_vars

\* C22: a send-otp for an email that has no user record is answered 400
\* 'Email not registered' in the step that receives it and has no effect: no
\* code record is created or deleted, no user record changes, and the handler
\* ends there, so it never reaches the store or the mailer.
C22_SendOtpUnregisteredNoEffect ==
    [][\A e \in EmailInputsPair \ {""} :
          (SendOtpReceived(e) /\ ~users[ToLower(e)].exists)
             => (/\ lastResp' = [NoResp EXCEPT !.op = "send-otp", !.email = e,
                                     !.status = 400,
                                     !.error = "Email not registered"]
                 /\ otps' = otps
                 /\ users' = users
                 /\ hist' = hist
                 /\ procs' = procs)]_vars

C22_Witness ==
    /\ lastResp.op = "send-otp"
    /\ lastResp.error = "Email not registered"
    /\ LiveRecords(ToLower(lastResp.email)) # {}

\* C21: the password field of every stored user record is a bcrypt hash and
\* never a plaintext password, and a register step that writes a user record,
\* creating it or promoting an existing unverified one, stores the hash of
\* the password of its request.
C21_PasswordStoredHashed ==
    [][/\ \A e \in Keys :
            users'[e].exists
               => (/\ Len(users'[e].password) = 2
                   /\ users'[e].password[1] = "bcrypt"
                   /\ users'[e].password[2] \in {"secret1", "secret2"})
       /\ \A e \in Keys :
            users'[e].password # users[e].password
               => \E p \in Procs :
                     /\ procs[p].op = "register"
                     /\ procs[p].pc = "saveUser"
                     /\ procs'[p].pc = "idle"
                     /\ Key(p) = e
                     /\ users'[e].password = <<"bcrypt", procs[p].password>>]_vars

C21_Witness ==
    /\ lastResp.op = "register"
    /\ lastResp.status = 201
    /\ users[ToLower(lastResp.email)].password = <<"bcrypt", "secret2">>

(***************************************************************************)
(* Properties of /register in auth-routes.js                               *)
(***************************************************************************)
\* the register requests received so far whose body has every field and
\* whose email, lower-cased and trimmed, is e
RegsFor(e) ==
    {p \in Procs : /\ regs[p].pc # "idle"
                   /\ regs[p].name # ""
                   /\ regs[p].password # ""
                   /\ regs[p].email # ""
                   /\ NormalizeEmail(regs[p].email) = e}

DocsFor(e) == {i \in 1..Len(userDocs) : userDocs[i].email = e}

Created(e) == {p \in RegsFor(e) : regs[p].status = 201}

TimesFrom(t) ==
    {c \in {t + k * TickToken : k \in 0..(MaxTokenClock \div TickToken)} :
        c <= MaxTokenClock}

\* C31: every session token issued by register or login, presented to
\* /verify before its 24-hour expiry, is accepted and yields the id, email
\* and role of the user it was issued for: the key it is signed with is the
\* key verifyToken checks with, whether JWT_SECRET is set or not.
C31_IssuedTokenAccepted ==
    [][/\ \A tok \in issued' \ issued :
            /\ tok.payload.email \in Keys
            /\ users'[tok.payload.email].exists
            /\ tok.payload.id = UserId(tok.payload.email)
            /\ tok.payload.role = users'[tok.payload.email].role
            /\ \A c \in TimesFrom(clock) :
                  c < tok.iat + TOKEN_LIFETIME =>
                     JwtVerify(tok, EffectiveSecret(jwtSecret), c)
       /\ (/\ lastResp'.op = "verify"
           /\ lastResp'.bearer \in issued
           /\ clock < lastResp'.bearer.iat + TOKEN_LIFETIME)
          => /\ lastResp'.status = 200
             /\ lastResp'.user.email \in Keys
             /\ users[lastResp'.user.email].exists
             /\ lastResp'.user.id = UserId(lastResp'.user.email)
             /\ lastResp'.user.role = users[lastResp'.user.email].role]_vars

\* with JWT_SECRET not set, a token that login issued is presented half a
\* lifetime later and accepted
C31_Witness ==
    /\ jwtSecret = ""
    /\ lastResp.op = "verify"
    /\ lastResp.bearer \in issued
    /\ lastResp.status = 200
    /\ lastResp.user.email = "a@x.com"
    /\ clock > lastResp.bearer.iat
    /\ clock < lastResp.bearer.iat + TOKEN_LIFETIME

(***************************************************************************)
(* Properties of login and /verify                                         *)
(***************************************************************************)
\* the response of login to an email that has no user record
UnknownEmailResponse(e) ==
    [NoResp EXCEPT !.op = "login", !.email = e, !.status = 400,
                   !.error = "Invalid email or password"]

\* C16: a login with an email and a password that is not the password of
\* the account of that email gets the response an email without user record
\* gets (400 'Invalid email or password'), whether or not a user record
\* exists for the email.
C16_LoginDoesNotRevealAccounts ==
    [][/\ (opsStarted' = opsStarted + 1 /\ lastResp'.op = "login")
            => \A p \in Procs, e \in EmailInputsPair \ {""},
                  w \in LoginPasswords \ {""} :
                  (/\ Login(p, e, w)
                   /\ \/ ~users[ToLower(e)].exists
                      \/ users[ToLower(e)].password # <<"bcrypt", w>>)
                  => lastResp' = UnknownEmailResponse(e)
       /\ \A p \in Procs :
            (/\ procs[p].op = "login"
             /\ procs[p].pc = "compare"
             /\ procs'[p].pc = "idle"
             /\ procs[p].usr.password # <<"bcrypt", procs[p].password>>)
            => lastResp' = UnknownEmailResponse(procs[p].email)]_vars

\* the login handler of slot p sends its response in this step, or a login
\* request is received and answered in this step
LoginAnswers(p) ==
    \/ procs[p].op = "login" /\ Active(p) /\ procs'[p].pc = "idle"
    \/ /\ \A q \in Procs : q < p => Active(q)
       /\ ~Active(p)
       /\ opsStarted' = opsStarted + 1
       /\ lastResp'.op = "login"

\* C17: a login response carries a token only when a verified user record
\* exists for the email and the supplied password matches its stored hash,
\* and the token then carries that user's id, email and role; a login for
\* an existing unverified account is answered 401 'Email not verified' with
\* needsVerification and no token; no step of login changes a user record
\* or a code record.
C17_LoginIssuesTokenOnlyToVerified ==
    [][\A p \in Procs :
          /\ (LoginAnswers(p) /\ (lastResp'.token # NoToken \/ lastResp'.status = 200))
                => LET e == ToLower(lastResp'.email)
                   IN /\ e \in Keys
                      /\ users[e].exists
                      /\ users[e].isVerified
                      /\ users[e].password = <<"bcrypt", procs[p].password>>
                      /\ lastResp'.status = 200
                      /\ lastResp'.token.form = "jwt"
                      /\ lastResp'.token.payload =
                            [id |-> UserId(e), email |-> e, role |-> users[e].role]
          /\ (/\ LoginAnswers(p)
              /\ ~Active(p)
              /\ lastResp'.error # "Email and password are required"
              /\ ToLower(lastResp'.email) \in Keys
              /\ users[ToLower(lastResp'.email)].exists
              /\ ~users[ToLower(lastResp'.email)].isVerified)
                => (/\ lastResp'.status = 401
                    /\ lastResp'.error = "Email not verified"
                    /\ lastResp'.needsVerification
                    /\ lastResp'.token = NoToken)
          /\ (LoginAnswers(p) \/ procs'[p].op = "login" \/ procs[p].op = "login")
                => (/\ users' = users
                    /\ otps' = otps
                    /\ verificationCodes' = verificationCodes)]_vars

C17_Witness ==
    /\ lastResp.op = "login"
    /\ lastResp.status = 200
    /\ lastResp.token.form = "jwt"
    /\ \E e \in Keys : users[e].exists /\ ~users[e].isVerified

\* C18: /verify answers 401 whenever the token is missing, malformed,
\* expired (the clock has reached its exp, 24 hours after it was issued) or
\* signed with a key other than the server's secret (JWT_SECRET, or
\* 'your-secret-key' when it is not set); to every other token it answers
\* 200 with exactly the id, email and role claims of the token.
C18_VerifySessionUnauthorized ==
    lastResp.op = "verify" =>
        LET tok == lastResp.bearer
            secret == IF jwtSecret = "" THEN "your-secret-key" ELSE jwtSecret
        IN IF \/ tok.form = "missing"
              \/ tok.form = "malformed"
              \/ clock >= tok.iat + TOKEN_LIFETIME
              \/ tok.key # secret
           THEN lastResp.status = 401 /\ lastResp.user = NoClaims
           ELSE /\ lastResp.status = 200
                /\ lastResp.user = [id |-> tok.payload.id,
                                    email |-> tok.payload.email,
                                    role |-> tok.payload.role]

C18_Witness ==
    /\ lastResp.op = "verify"
    /\ lastResp.status = 401
    /\ lastResp.bearer.form = "jwt"
    /\ lastResp.bearer.key = (IF jwtSecret = "" THEN "your-secret-key" ELSE jwtSecret)
    /\ clock >= lastResp.bearer.exp

\* C19: a /verify call changes no user record, no code record and no queue
\* state, and a call with a token that an earlier call accepted, made before
\* the token's expiry, returns the claims the earlier call returned.
C19_VerifySessionIdempotent ==
    [][lastResp'.op = "verify"
         => /\ users' = users
            /\ otps' = otps
            /\ verificationCodes' = verificationCodes
            /\ codeTimers' = codeTimers
            /\ requestQueue' = requestQueue
            /\ isProcessing' = isProcessing
            /\ inflight' = inflight
            /\ timers' = timers
            /\ procs' = procs
            /\ LET tok == lastResp'.bearer
               IN (/\ sessionLog[tok].status = 200
                   /\ clock < tok.iat + TOKEN_LIFETIME)
                  => (/\ lastResp'.status = 200
                      /\ lastResp'.user = sessionLog[tok].user)]_vars

C19_Witness ==
    /\ lastResp.op = "verify"
    /\ lastResp.status = 200
    /\ sessionLog[lastResp.bearer].status = 200
    /\ sessionLog[lastResp.bearer].at < clock

(***************************************************************************)
(* Properties of the numeric-code variant                                  *)
(***************************************************************************)
\* C11: no expiry timer deletes a code record that is younger than the TTL
\* (10 minutes), also after a resend-code or a repeated request-verification
\* for the same email; and a verify-email that presents the stored code of a
\* record no older than the TTL is not rejected.
C11_CodeLivesForTtl ==
    [][\A e \in NumEmails :
          /\ (/\ verificationCodes[e] # NoVerification
              /\ verificationCodes'[e] = NoVerification
              /\ codeTimers' # codeTimers
              /\ codeTimers' \subseteq codeTimers)
             => clock - verificationCodes[e].timestamp >= CODE_TTL
          /\ \A p \in Procs :
                (/\ ~Active(p)
                 /\ opsStarted' = opsStarted + 1
                 /\ verificationCodes[e] # NoVerification
                 /\ clock - verificationCodes[e].timestamp <= CODE_TTL
                 /\ \/ (procs'[p].op = "verify-email" /\ procs'[p].email = e
                            /\ procs'[p].code = verificationCodes[e].code)
                    \/ (lastResp'.op = "verify-email" /\ lastResp'.email = e
                            /\ lastResp'.code = verificationCodes[e].code))
                => lastResp'.status # 400]_vars

(***************************************************************************)
(* Properties of the relevance scorer of server.js                         *)
(***************************************************************************)
PendulumCorpus ==
    <<"https://physicslabgmu.github.io/Lab_db/PHY161/pendulum_setup.jpg",
      "https://physicslabgmu.github.io/Lab_db/PHY260/ac_circuit.jpg",
      "https://physicslabgmu.github.io/Lab_db/PHY161/manual.pdf">>

\* the place of url in the list the scorer returned, 0 if it is not there
Rank(url) ==
    IF \E i \in 1..Len(relevantUrls) : relevantUrls[i].url = url
    THEN CHOOSE i \in 1..Len(relevantUrls) : relevantUrls[i].url = url
    ELSE 0

\* C24: on the corpus [PHY161/pendulum_setup.jpg, PHY260/ac_circuit.jpg,
\* PHY161/manual.pdf] the query 'show me the pendulum image for phy 161'
\* returns pendulum_setup.jpg first and manual.pdf before ac_circuit.jpg.
C24_PendulumExampleRanking ==
    (urlDatabase = PendulumCorpus /\ lastQuery = PendulumQuery)
        => (/\ Rank(PendulumCorpus[1]) = 1
            /\ Rank(PendulumCorpus[3]) > 0
            /\ Rank(PendulumCorpus[2]) > 0
            /\ Rank(PendulumCorpus[3]) < Rank(PendulumCorpus[2]))

\* the place of url in the corpus
Place(url) == CHOOSE k \in 1..Len(urlDatabase) : urlDatabase[k] = url

\* C25: getRelevantUrls returns at most 5 entries of the corpus, each once
\* and each with a score greater than 0, in order of non-increasing score,
\* entries of equal score in corpus order; and they are the highest-scoring
\* ones: an entry with a positive score is left out only when 5 entries are
\* returned that all come before it in that order.
C25_TopScoredInOrder ==
    lastQuery # "" =>
        /\ Len(relevantUrls) <= 5
        /\ \A i \in 1..Len(relevantUrls) :
              /\ \E k \in 1..Len(urlDatabase) : urlDatabase[k] = relevantUrls[i].url
              /\ Score(relevantUrls[i].url, lastQuery) > 0
        /\ \A i, j \in 1..Len(relevantUrls) :
              i < j =>
                 LET si == Score(relevantUrls[i].url, lastQuery)
                     sj == Score(relevantUrls[j].url, lastQuery)
                 IN /\ relevantUrls[i].url # relevantUrls[j].url
                    /\ si >= sj
                    /\ si = sj => Place(relevantUrls[i].url) < Place(relevantUrls[j].url)
        /\ \A k \in 1..Len(urlDatabase) :
              (Score(urlDatabase[k], lastQuery) > 0 /\ Rank(urlDatabase[k]) = 0)
                 => /\ Len(relevantUrls) = 5
                    /\ \A i \in 1..Len(relevantUrls) :
                          LET si == Score(relevantUrls[i].url, lastQuery)
                              sk == Score(urlDatabase[k], lastQuery)
                          IN \/ si > sk
                             \/ si = sk /\ Place(relevantUrls[i].url) < k

C25_Witness ==
    /\ Len(relevantUrls) = 5
    /\ \E k \in 1..Len(urlDatabase) :
          Score(urlDatabase[k], lastQuery) > 0 /\ Rank(urlDatabase[k]) = 0
    /\ \E i \in 1..4 :
          Score(relevantUrls[i].url, lastQuery)
             = Score(relevantUrls[i + 1].url, lastQuery)
    /\ Score(relevantUrls[1].url, lastQuery) > Score(relevantUrls[5].url, lastQuery)

\* the score of url when the query words of 2 characters or fewer are dropped
ScoreOfLongWords(url, q) ==
    LET queryLower == ToLowerCase(q)
        fileNameLower == ToLowerCase(FileName(url))
    IN (IF IsImageQuery(queryLower) /\ FileType(url) \in ImageTypes THEN 5 ELSE 0)
       + SumWordScores(ToLowerCase(url), fileNameLower,
                       Split(fileNameLower, {"-", "_", " "}, TRUE),
                       SelectSeq(Split(queryLower, {" "}, TRUE),
                                 LAMBDA w : Len(w) > 2))

\* C26: the query words of 2 characters or fewer, the empty word that
\* leading or trailing whitespace produces included, add nothing to the score
\* of any URL: every score is the score the longer words alone give, and a
\* URL is returned only if that score is positive.
C26_ShortTokensDropped ==
    lastQuery # "" =>
        /\ \A k \in 1..Len(urlDatabase) :
              Score(urlDatabase[k], lastQuery)
                 = ScoreOfLongWords(urlDatabase[k], lastQuery)
        /\ \A i \in 1..Len(relevantUrls) :
              ScoreOfLongWords(relevantUrls[i].url, lastQuery) > 0

\* C37: in the numeric-code variant, resend-code for an email with a
\* pending verification replaces only the code and its timestamp and leaves
\* the attached registration payload (name, email, password) unchanged;
\* resend-code for an email with no pending verification fails with 400
\* ('No pending verification found'), leaves the code store unchanged and
\* sends no email.
C37_ResendCodeKeepsPayload ==
    [][/\ (opsStarted' # opsStarted /\ lastResp'.op = "resend-code")
            => /\ lastResp'.status = 400
               /\ lastResp'.error = "No pending verification found"
               /\ verificationCodes[lastResp'.email] = NoVerification
               /\ verificationCodes' = verificationCodes
               /\ codeTimers' = codeTimers
               /\ procs' = procs
       /\ \A p \in Procs :
            (~Active(p) /\ procs'[p].op = "resend-code")
            => LET e == procs'[p].email
                   old == verificationCodes[e]
                   new == verificationCodes'[e]
               IN /\ old # NoVerification
                  /\ new.userData = old.userData
                  /\ new.code = procs'[p].code
                  /\ new.timestamp = clock
                  /\ procs'[p].pc = "sendMail"
                  /\ codeTimers' = codeTimers
                  /\ \A o \in Keys \ {e} :
                        verificationCodes'[o] = verificationCodes[o]]_vars

\* a record stored at time 0 has a later timestamp and the code of the
\* resend-code whose mail is being sent, and still carries its payload
C37_Witness ==
    \E p \in Procs :
        /\ procs[p].op = "resend-code"
        /\ procs[p].pc = "sendMail"
        /\ verificationCodes[procs[p].email].code = procs[p].code
        /\ verificationCodes[procs[p].email].timestamp = clock
        /\ clock > 0
        /\ verificationCodes[procs[p].email].userData.name # ""
        /\ verificationCodes[procs[p].email].userData.password # ""
        /\ \E t \in codeTimers : t.email = procs[p].email /\ t.due = CODE_TTL

\* C23: every verification code record stored for an email is eventually
\* removed, on every path, including the one where sending the mail fails.
C23_CodeRecordEventuallyRemoved ==
    \A e \in NumEmails :
        (verificationCodes[e] # NoVerification)
            ~> (verificationCodes[e] = NoVerification)

====
